---- MODULE Spec2Model ----
(***************************************************************************)
(* State-machine model of the pricing-and-settlement core of iota-defi:    *)
(*   - the AMM liquidity pool of module defi_protocol                      *)
(*     (src/unnamed/part_000), and                                         *)
(*   - the price oracle of module oracle_aggregator                        *)
(*     (src/contracts/sources/oracle_aggregator.move).                     *)
(* The two modules share no state; SpecAMM and SpecOracle explore them     *)
(* separately. SpecPure applies single computations to enumerated inputs:  *)
(* the arithmetic of a round over confidences that the aggregator's        *)
(* behaviours do not enumerate, update_settings, and the swap, pool        *)
(* creation and square root of the AMM at the full width of u64 and u128.  *)
(*                                                                         *)
(* Move semantics used throughout: an abort rolls the whole transaction    *)
(* back, u64 division truncates, and u64 arithmetic aborts on overflow.    *)
(* The inputs of SpecAMM and SpecOracle keep every intermediate value      *)
(* under ArithLimit, far below 2^64, so no call they explore aborts by     *)
(* overflow; the checked_ operators of SpecPure decide overflow exactly.   *)
(***************************************************************************)
EXTENDS Integers, Sequences, FiniteSets, TLC

VARIABLES
    protocol,   \* ProtocolState: admin, trading_fee_rate, is_paused, total_value_locked
    profiles,   \* UserProfile dynamic fields of ProtocolState, by owner
    pool,       \* the LiquidityPool<T, T> that is tracked
    receipts,   \* FlashLoan receipts alive in the running transaction
    inTx,       \* TRUE while a transaction that borrowed is still running
    txStart,    \* protocol, profiles and pool as they were when it began
    txLog,      \* flash loans taken and repaid in the current or last such transaction
    last,       \* the last call and its outcome
    nOps        \* number of calls made so far

ammVars == <<protocol, profiles, pool, receipts, inTx, txStart, txLog, last, nOps>>

VARIABLES
    settings,       \* OracleAggregator.aggregation_settings
    is_paused,      \* OracleAggregator.is_paused
    oracle_nodes,   \* OracleAggregator.oracle_nodes, by address
    feed,           \* the PriceFeed of the pair, with its buffer price_sources
    breaker,        \* the CircuitBreaker of the pair
    history,        \* the PriceHistory of the pair
    clock,          \* Clock.timestamp_ms
    olast,          \* the last oracle call and its outcome
    config_changes, \* number of successful settings, pause and reset calls
    rounds          \* history: what happened since the last round and the last trip

oracleVars ==
    <<settings, is_paused, oracle_nodes, feed, breaker, history, clock, olast,
      config_changes, rounds>>

VARIABLES
    calc            \* an arithmetic function of the oracle applied on its own: inputs and result

pureVars == <<calc>>

vars == <<ammVars, oracleVars, pureVars>>

\* ------------------------------------------------------------------ bounds

\* Calls explored per behaviour of the AMM.
MaxOps == 4
\* Legs in one batch_swaps call.
MaxBatch == 2

\* Largest intermediate value the explored calls may produce.
ArithLimit == 2000000 * 1000

\* ------------------------------------------------------------- constants

EInsufficientBalance == 1001
EInsufficientLiquidity == 1002
ESlippageTooHigh == 1003
ENotAuthorized == 1005
EInvalidTokenType == 1009
\* balance::ENotEnough of the framework, raised by coin::split
EBalanceNotEnough == 2
\* sui::dynamic_field, raised by table::add on a key that is present
EFieldAlreadyExists == 0

InitialTradingFeeRate == 30
MaxTradingFeeRate == 1000
FlashLoanFeeBps == 9
FlashLoanReserveDivisor == 10
StableFeeNumerator == 9970
BpsDenominator == 10000
PriceScale == 1000000

\* ---------------------------------------------------------------- inputs

Admin == "admin"
Callers == {"admin", "trader"}
Traders == {"trader"}
Updaters == {"trader"}
FeeRates == {0, 1000, 1001}
PoolAmountsA == {0, 10, 1000000}
PoolAmountsB == {0, 10, 1000}
Amplifications == {100}
SwapAmounts == {0, 1, 4}
MinOuts == {0, 3}
BatchAmounts == {0, 3}
BatchMins == {0, 2}
LiquidityAmounts == {2, 20}
MinLpTokens == {0, 50}
FixedLoanAmounts == {0, 100000}
RepayDeltas == {-1, 0, 1}

\* ------------------------------------------------------------- helpers

MulFits(a, b) == IF a = 0 THEN TRUE ELSE b <= ArithLimit \div a

NoPool ==
    [created |-> FALSE, token_a_reserve |-> 0, token_b_reserve |-> 0,
     lp_token_supply |-> 0, swap_fee_rate |-> 0, last_price |-> 0,
     k_constant |-> 0, amplification_coefficient |-> 0,
     is_stable_pool |-> FALSE]

RECURSIVE sqrt_loop(_, _)
\* The loop of sqrt_u128. The test guess * guess > x is written
\* guess > x \div guess, which is the same for integers guess >= 1 and
\* does not need the square.
sqrt_loop(guess, x) ==
    IF guess > x \div guess
    THEN sqrt_loop((guess + x \div guess) \div 2, x)
    ELSE guess

sqrt_u128(x) ==
    IF x = 0 THEN 0
    ELSE sqrt_loop(IF x \div 2 = 0 THEN 1 ELSE x \div 2, x)

\* Mutant: the fee is added to the input instead of being withheld from it.
constant_product_fee_added(amount_in, reserve_in, reserve_out, fee_rate) ==
    LET amount_in_with_fee == amount_in * (BpsDenominator + fee_rate)
        numerator == amount_in_with_fee * reserve_out
        denominator == (reserve_in * BpsDenominator) + amount_in_with_fee
    IN  numerator \div denominator

\* Mutant: the fee is not deducted from the input.
constant_product_without_fee(amount_in, reserve_in, reserve_out, fee_rate) ==
    (amount_in * 10000 * reserve_out) \div (reserve_in * 10000 + amount_in * 10000)

calculate_constant_product_output(amount_in, reserve_in, reserve_out, fee_rate) ==
    LET amount_in_with_fee == amount_in * (BpsDenominator - fee_rate)
        numerator == amount_in_with_fee * reserve_out
        denominator == (reserve_in * BpsDenominator) + amount_in_with_fee
    IN  numerator \div denominator

calculate_stable_swap_output(amount_in, reserve_in, reserve_out, amplification) ==
    LET fee_adjusted_input == (amount_in * StableFeeNumerator) \div BpsDenominator
    IN  (fee_adjusted_input * reserve_out) \div (reserve_in + fee_adjusted_input)

\* The swap arithmetic of the call stays under ArithLimit.
SwapFits(amount_in, p) ==
    /\ p.token_a_reserve + amount_in <= ArithLimit \div BpsDenominator
    /\ MulFits(amount_in * BpsDenominator, p.token_b_reserve)
    /\ MulFits(p.token_b_reserve, PriceScale)
    /\ MulFits(p.token_a_reserve + amount_in, p.token_b_reserve)

\* Mutant: the receipt struct is declared with the drop ability.
FlashLoanAbilitiesWithDrop == {"drop"}

\* Abilities declared for struct FlashLoan: none, so a receipt can be neither
\* dropped, stored nor copied and only repay_flash_loan can consume it.
FlashLoanAbilities == {}

NoProfile == [exists |-> FALSE, total_liquidity_provided |-> 0, total_volume_traded |-> 0]

NoSnapshot == [protocol |-> <<>>, profiles |-> <<>>, pool |-> NoPool]

Snapshot == [protocol |-> protocol, profiles |-> profiles, pool |-> pool]

\* What the transaction started from: an abort restores it.
Base == IF inTx THEN txStart ELSE Snapshot

\* A call aborts: the whole transaction is rolled back and its receipts vanish.
Abort(record) ==
    /\ protocol' = Base.protocol
    /\ profiles' = Base.profiles
    /\ pool' = Base.pool
    /\ receipts' = <<>>
    /\ inTx' = FALSE
    /\ txStart' = NoSnapshot
    /\ txLog' = txLog
    /\ last' = record @@ [ok |-> FALSE, events |-> <<>>]
    /\ nOps' = nOps + 1
    /\ UNCHANGED <<oracleVars, pureVars>>

\* A call succeeds, inside a running transaction or as a transaction of its
\* own. last.events lists the events the call emitted: none, unless the record
\* of the call names them.
Commit(newProtocol, newProfiles, newPool, record) ==
    /\ protocol' = newProtocol
    /\ profiles' = newProfiles
    /\ pool' = newPool
    /\ last' = record @@ [ok |-> TRUE, err |-> 0, events |-> <<>>]
    /\ nOps' = nOps + 1
    /\ UNCHANGED <<receipts, inTx, txStart, txLog>>
    /\ UNCHANGED <<oracleVars, pureVars>>

AmmInit ==
    /\ protocol = [admin |-> Admin, trading_fee_rate |-> InitialTradingFeeRate,
                   is_paused |-> FALSE, total_value_locked |-> 0,
                   authorized_updaters |-> {}]
    /\ profiles = [c \in Callers |-> NoProfile]
    /\ pool = NoPool
    /\ receipts = <<>>
    /\ inTx = FALSE
    /\ txStart = NoSnapshot
    /\ txLog = [loans |-> 0, repays |-> 0]
    /\ last = [op |-> "init", ok |-> TRUE, err |-> 0, events |-> <<>>]
    /\ nOps = 0

create_liquidity_pool(caller, amount_a, amount_b, is_stable, amplification) ==
    /\ nOps < MaxOps /\ ~inTx /\ ~pool.created
    /\ MulFits(amount_a, amount_b) /\ MulFits(amount_b, PriceScale)
    /\ LET op == [op |-> "create_liquidity_pool"]
           k_constant == amount_a * amount_b
       IN  IF protocol.is_paused \/ caller # protocol.admin
           THEN Abort(op @@ [err |-> ENotAuthorized])
           ELSE IF ~(amount_a > 0 /\ amount_b > 0)
           THEN Abort(op @@ [err |-> EInsufficientLiquidity])
           ELSE Commit(protocol, profiles,
                    [created |-> TRUE,
                     token_a_reserve |-> amount_a,
                     token_b_reserve |-> amount_b,
                     lp_token_supply |-> sqrt_u128(k_constant),
                     swap_fee_rate |-> protocol.trading_fee_rate,
                     last_price |-> (amount_b * PriceScale) \div amount_a,
                     k_constant |-> k_constant,
                     amplification_coefficient |-> amplification,
                     is_stable_pool |-> is_stable],
                    op)

CreateLiquidityPool ==
    \E caller \in Callers, amount_a \in PoolAmountsA, amount_b \in PoolAmountsB,
       is_stable \in BOOLEAN, amplification \in Amplifications :
        create_liquidity_pool(caller, amount_a, amount_b, is_stable, amplification)

update_protocol_parameters(caller, fee_rate) ==
    /\ nOps < MaxOps /\ ~inTx
    /\ LET op == [op |-> "update_protocol_parameters"]
       IN  IF caller # protocol.admin
           THEN Abort(op @@ [err |-> ENotAuthorized])
           ELSE IF ~(fee_rate <= MaxTradingFeeRate)
           THEN Abort(op @@ [err |-> EInvalidTokenType])
           ELSE Commit([protocol EXCEPT !.trading_fee_rate = fee_rate],
                       profiles, pool, op)

UpdateProtocolParameters ==
    \E caller \in Callers, fee_rate \in FeeRates :
        update_protocol_parameters(caller, fee_rate)

set_protocol_pause(caller, paused) ==
    /\ nOps < MaxOps /\ ~inTx
    /\ LET op == [op |-> "set_protocol_pause"]
       IN  IF caller # protocol.admin
           THEN Abort(op @@ [err |-> ENotAuthorized])
           ELSE Commit([protocol EXCEPT !.is_paused = paused], profiles, pool, op)

SetProtocolPause ==
    \E caller \in Callers, paused \in BOOLEAN : set_protocol_pause(caller, paused)

\* Mutant: the sender is not compared with the admin.
transfer_admin_by_anyone(caller, new_admin) ==
    /\ nOps < MaxOps /\ ~inTx
    /\ Commit([protocol EXCEPT !.admin = new_admin], profiles, pool,
              [op |-> "transfer_admin"])

transfer_admin(caller, new_admin) ==
    /\ nOps < MaxOps /\ ~inTx
    /\ LET op == [op |-> "transfer_admin"]
       IN  IF caller # protocol.admin
           THEN Abort(op @@ [err |-> ENotAuthorized])
           ELSE Commit([protocol EXCEPT !.admin = new_admin], profiles, pool, op)

TransferAdmin ==
    \E caller \in Callers, new_admin \in Callers : transfer_admin(caller, new_admin)

emergency_pause(caller) ==
    /\ nOps < MaxOps /\ ~inTx
    /\ LET op == [op |-> "emergency_pause"]
       IN  IF caller # protocol.admin
           THEN Abort(op @@ [err |-> ENotAuthorized])
           ELSE Commit([protocol EXCEPT !.is_paused = TRUE], profiles, pool, op)

EmergencyPause == \E caller \in Callers : emergency_pause(caller)

\* table::add aborts when the updater is already in the table.
add_oracle_updater(caller, updater) ==
    /\ nOps < MaxOps /\ ~inTx
    /\ LET op == [op |-> "add_oracle_updater"]
       IN  IF caller # protocol.admin
           THEN Abort(op @@ [err |-> ENotAuthorized])
           ELSE IF updater \in protocol.authorized_updaters
           THEN Abort(op @@ [err |-> EFieldAlreadyExists])
           ELSE Commit([protocol EXCEPT !.authorized_updaters = @ \cup {updater}],
                       profiles, pool, op)

AddOracleUpdater ==
    \E caller \in Callers, updater \in Updaters : add_oracle_updater(caller, updater)

\* The UserProfile update of swap_exact_input: only an existing profile is
\* touched. The tier thresholds (10^10 and 10^11 traded) lie above ArithLimit,
\* so tier_level and fee_discount never change here and are not tracked.
ProfilesAfterSwap(caller, amount_in) ==
    IF profiles[caller].exists
    THEN [profiles EXCEPT ![caller].total_volume_traded = @ + amount_in]
    ELSE profiles

swap_exact_input(caller, amount_in, min_amount_out) ==
    /\ nOps < MaxOps /\ pool.created
    /\ SwapFits(amount_in, pool)
    /\ LET op == [op |-> "swap_exact_input", amount_in |-> amount_in,
                  min_amount_out |-> min_amount_out]
           reserve_in == pool.token_a_reserve
           reserve_out == pool.token_b_reserve
           amount_out ==
               IF pool.is_stable_pool
               THEN calculate_stable_swap_output(amount_in, reserve_in, reserve_out,
                                                 pool.amplification_coefficient)
               ELSE calculate_constant_product_output(amount_in, reserve_in, reserve_out,
                                                      pool.swap_fee_rate)
           price_after == ((reserve_out - amount_out) * PriceScale) \div (reserve_in + amount_in)
       IN  IF protocol.is_paused
           THEN Abort(op @@ [err |-> ENotAuthorized])
           ELSE IF ~(amount_in > 0)
           THEN Abort(op @@ [err |-> EInsufficientBalance])
           ELSE IF ~(amount_out > 0)
           THEN Abort(op @@ [err |-> EInsufficientLiquidity])
           ELSE IF ~(amount_out >= min_amount_out)
           THEN Abort(op @@ [err |-> ESlippageTooHigh])
           ELSE Commit(protocol,
                       ProfilesAfterSwap(caller, amount_in),
                       [pool EXCEPT !.token_a_reserve = reserve_in + amount_in,
                                    !.token_b_reserve = reserve_out - amount_out,
                                    !.last_price = price_after],
                       op @@ [events |-> <<"TokenSwapped">>,
                              legs |-> << [reserve_in |-> reserve_in,
                                           reserve_out |-> reserve_out,
                                           amount_in |-> amount_in,
                                           amount_out |-> amount_out] >>])

SwapExactInput ==
    \E caller \in Traders, amount_in \in SwapAmounts, min_amount_out \in MinOuts :
        swap_exact_input(caller, amount_in, min_amount_out)

\* One leg of batch_swaps on reserves r = <<reserve_a, reserve_b>>: the leg is
\* executed when amount_in > 0 and the output reaches min_out, else skipped.
BatchLegExecutes(amount_in, min_out, r, fee_rate) ==
    /\ amount_in > 0
    /\ calculate_constant_product_output(amount_in, r[1], r[2], fee_rate) >= min_out

RECURSIVE BatchLoop(_, _, _, _, _)
\* The while loop of batch_swaps: pop_back takes the legs from the last to the
\* first. Returns the reserves and the executed legs.
BatchLoop(tokens_in, min_amounts_out, r, fee_rate, legs) ==
    IF tokens_in = <<>>
    THEN [reserves |-> r, legs |-> legs]
    ELSE LET n == Len(tokens_in)
             amount_in == tokens_in[n]
             min_out == min_amounts_out[n]
             amount_out == calculate_constant_product_output(amount_in, r[1], r[2], fee_rate)
         IN  IF BatchLegExecutes(amount_in, min_out, r, fee_rate)
             THEN BatchLoop(SubSeq(tokens_in, 1, n - 1), SubSeq(min_amounts_out, 1, n - 1),
                            <<r[1] + amount_in, r[2] - amount_out>>, fee_rate,
                            Append(legs, [reserve_in |-> r[1], reserve_out |-> r[2],
                                          amount_in |-> amount_in,
                                          amount_out |-> amount_out]))
             ELSE BatchLoop(SubSeq(tokens_in, 1, n - 1), SubSeq(min_amounts_out, 1, n - 1),
                            r, fee_rate, legs)

RECURSIVE SumSeq(_)
SumSeq(q) == IF q = <<>> THEN 0 ELSE q[1] + SumSeq(Tail(q))

batch_swaps(caller, tokens_in, min_amounts_out) ==
    /\ nOps < MaxOps /\ pool.created
    /\ SwapFits(SumSeq(tokens_in), pool)
    /\ LET op == [op |-> "batch_swaps"]
           done == BatchLoop(tokens_in, min_amounts_out,
                             <<pool.token_a_reserve, pool.token_b_reserve>>,
                             pool.swap_fee_rate, <<>>)
       IN  IF protocol.is_paused
           THEN Abort(op @@ [err |-> ENotAuthorized])
           ELSE IF ~(Len(min_amounts_out) = Len(tokens_in))
           THEN Abort(op @@ [err |-> EInvalidTokenType])
           ELSE Commit(protocol, profiles,
                       [pool EXCEPT !.token_a_reserve = done.reserves[1],
                                    !.token_b_reserve = done.reserves[2]],
                       op @@ [legs |-> done.legs])

SeqsUpTo(S, n) == UNION {[1..k -> S] : k \in 0..n}

BatchSwaps ==
    \E caller \in Traders, tokens_in \in SeqsUpTo(BatchAmounts, MaxBatch),
       min_amounts_out \in SeqsUpTo(BatchMins, MaxBatch) :
        /\ Len(min_amounts_out) = Len(tokens_in) \/ min_amounts_out = <<>>
        /\ batch_swaps(caller, tokens_in, min_amounts_out)

\* The UserProfile update of add_liquidity: created on the first deposit.
ProfilesAfterDeposit(caller, deposited) ==
    IF ~profiles[caller].exists
    THEN [profiles EXCEPT ![caller] = [exists |-> TRUE,
                                       total_liquidity_provided |-> deposited,
                                       total_volume_traded |-> 0]]
    ELSE [profiles EXCEPT ![caller].total_liquidity_provided = @ + deposited]

\* Mutant: the shares minted are rounded up.
OptimalDepositRoundedUp(amount_a, amount_b, p) ==
    LET reserve_a == p.token_a_reserve
        reserve_b == p.token_b_reserve
        amount_b_optimal == (amount_a * reserve_b) \div reserve_a
        amount_a_optimal == (amount_b * reserve_a) \div reserve_b
    IN  IF amount_b_optimal <= amount_b
        THEN <<amount_a, amount_b_optimal,
               (amount_a * p.lp_token_supply + reserve_a - 1) \div reserve_a>>
        ELSE <<amount_a_optimal, amount_b,
               (amount_b * p.lp_token_supply + reserve_b - 1) \div reserve_b>>

\* Mutant: token A is always the one used in full.
OptimalDepositFromA(amount_a, amount_b, p) ==
    <<amount_a, (amount_a * p.token_b_reserve) \div p.token_a_reserve,
      (amount_a * p.lp_token_supply) \div p.token_a_reserve>>

\* <<optimal_a, optimal_b, lp_tokens_to_mint>> of add_liquidity.
OptimalDeposit(amount_a, amount_b, p) ==
    LET reserve_a == p.token_a_reserve
        reserve_b == p.token_b_reserve
    IN  IF reserve_a = 0 \/ reserve_b = 0
        THEN <<amount_a, amount_b, sqrt_u128(amount_a * amount_b)>>
        ELSE LET amount_b_optimal == (amount_a * reserve_b) \div reserve_a
                 amount_a_optimal == (amount_b * reserve_a) \div reserve_b
             IN  IF amount_b_optimal <= amount_b
                 THEN <<amount_a, amount_b_optimal,
                        (amount_a * p.lp_token_supply) \div reserve_a>>
                 ELSE <<amount_a_optimal, amount_b,
                        (amount_b * p.lp_token_supply) \div reserve_b>>

\* The deposit arithmetic of the call stays under ArithLimit.
DepositFits(amount_a, amount_b, p) ==
    /\ MulFits(amount_a, p.token_b_reserve) /\ MulFits(amount_b, p.token_a_reserve)
    /\ MulFits(amount_a, p.lp_token_supply) /\ MulFits(amount_b, p.lp_token_supply)
    /\ MulFits(p.token_a_reserve + amount_a, p.token_b_reserve + amount_b)

add_liquidity(caller, amount_a, amount_b, min_lp_tokens) ==
    /\ nOps < MaxOps /\ pool.created
    /\ DepositFits(amount_a, amount_b, pool)
    /\ LET op == [op |-> "add_liquidity", amount_a |-> amount_a, amount_b |-> amount_b]
           d == OptimalDeposit(amount_a, amount_b, pool)
           optimal_a == d[1]
           optimal_b == d[2]
           lp_tokens_to_mint == d[3]
           new_reserve_a == pool.token_a_reserve + optimal_a
           new_reserve_b == pool.token_b_reserve + optimal_b
       IN  IF protocol.is_paused
           THEN Abort(op @@ [err |-> ENotAuthorized])
           ELSE IF ~(lp_tokens_to_mint >= min_lp_tokens)
           THEN Abort(op @@ [err |-> ESlippageTooHigh])
           ELSE IF optimal_a > amount_a \/ optimal_b > amount_b
           THEN Abort(op @@ [err |-> EBalanceNotEnough])
           ELSE Commit([protocol EXCEPT !.total_value_locked = @ + optimal_a + optimal_b],
                       ProfilesAfterDeposit(caller, optimal_a + optimal_b),
                       [pool EXCEPT !.token_a_reserve = new_reserve_a,
                                    !.token_b_reserve = new_reserve_b,
                                    !.lp_token_supply = @ + lp_tokens_to_mint,
                                    !.k_constant = new_reserve_a * new_reserve_b],
                       op @@ [events |-> <<"LiquidityAdded">>,
                              optimal_a |-> optimal_a, optimal_b |-> optimal_b,
                              lp_tokens_minted |-> lp_tokens_to_mint,
                              refund_a |-> amount_a - optimal_a,
                              refund_b |-> amount_b - optimal_b])

AddLiquidity ==
    \E caller \in Traders, amount_a \in LiquidityAmounts, amount_b \in LiquidityAmounts,
       min_lp_tokens \in MinLpTokens :
        add_liquidity(caller, amount_a, amount_b, min_lp_tokens)

\* Mutant: the whole reserve may be lent.
LoanAllowedUpToReserve(amount, reserve) == amount <= reserve

\* Mutant: a loan of exactly a tenth of the reserve is refused.
LoanAllowedBelowTenth(amount, reserve) == amount < reserve \div 10

\* The assertion of flash_loan: at most a tenth of the reserve is lent.
LoanAllowed(amount, reserve) == amount <= reserve \div FlashLoanReserveDivisor

\* The fee written into the receipt by flash_loan.
FlashLoanFee(amount) == (amount * FlashLoanFeeBps) \div BpsDenominator

flash_loan(amount) ==
    /\ nOps < MaxOps /\ pool.created
    /\ LET op == [op |-> "flash_loan", amount |-> amount,
                  reserve |-> pool.token_a_reserve]
           reserve == pool.token_a_reserve
           fee == FlashLoanFee(amount)
       IN  IF ~LoanAllowed(amount, reserve)
           THEN Abort(op @@ [err |-> EInsufficientLiquidity])
           ELSE /\ pool' = [pool EXCEPT !.token_a_reserve = reserve - amount]
                /\ receipts' = Append(receipts, [amount |-> amount, fee |-> fee])
                /\ inTx' = TRUE
                /\ txStart' = Base
                /\ txLog' = IF inTx THEN [txLog EXCEPT !.loans = @ + 1]
                                    ELSE [loans |-> 1, repays |-> 0]
                /\ last' = op @@ [ok |-> TRUE, err |-> 0, events |-> <<>>]
                /\ nOps' = nOps + 1
                /\ UNCHANGED <<protocol, profiles>>
                /\ UNCHANGED <<oracleVars, pureVars>>

LoanAmounts(p) ==
    FixedLoanAmounts \cup {p.token_a_reserve \div FlashLoanReserveDivisor,
                           p.token_a_reserve \div FlashLoanReserveDivisor + 1,
                           p.token_a_reserve}

FlashLoan == \E amount \in LoanAmounts(pool) : flash_loan(amount)

\* Mutant: the repayment must exceed principal plus fee.
RepaymentExceeds(repayment, receipt) == repayment > receipt.amount + receipt.fee

\* The assertion of repay_flash_loan.
RepaymentCovers(repayment, receipt) == repayment >= receipt.amount + receipt.fee

RemoveAt(q, i) == SubSeq(q, 1, i - 1) \o SubSeq(q, i + 1, Len(q))

\* The receipts left once receipt i has been moved into repay_flash_loan and
\* unpacked there: without the copy ability the caller keeps no copy of it.
ReceiptsAfterUnpack(i) ==
    IF "copy" \in FlashLoanAbilities THEN receipts ELSE RemoveAt(receipts, i)

repay_flash_loan(i, repayment) ==
    /\ nOps < MaxOps /\ pool.created /\ inTx
    /\ LET receipt == receipts[i]
           op == [op |-> "repay_flash_loan", repayment |-> repayment,
                  receipt |-> receipt]
       IN  IF ~RepaymentCovers(repayment, receipt)
           THEN Abort(op @@ [err |-> EInsufficientBalance])
           ELSE /\ pool' = [pool EXCEPT !.token_a_reserve = @ + repayment]
                /\ receipts' = ReceiptsAfterUnpack(i)
                /\ txLog' = [txLog EXCEPT !.repays = @ + 1]
                /\ last' = op @@ [ok |-> TRUE, err |-> 0, events |-> <<>>]
                /\ nOps' = nOps + 1
                /\ UNCHANGED <<protocol, profiles, inTx, txStart>>
                /\ UNCHANGED <<oracleVars, pureVars>>

RepayFlashLoan ==
    \E i \in 1..Len(receipts), delta \in RepayDeltas :
        /\ receipts[i].amount + receipts[i].fee + delta >= 0
        /\ repay_flash_loan(i, receipts[i].amount + receipts[i].fee + delta)

\* The transaction that borrowed ends successfully. A value without the drop
\* ability cannot be left behind, so every receipt must have been consumed.
TxEnd ==
    /\ inTx
    /\ receipts = <<>> \/ "drop" \in FlashLoanAbilities
    /\ inTx' = FALSE
    /\ receipts' = <<>>
    /\ txStart' = NoSnapshot
    /\ last' = [op |-> "tx_end", ok |-> TRUE, err |-> 0, events |-> <<>>,
                outstanding |-> Len(receipts),
                reserve_before |-> txStart.pool.token_a_reserve]
    /\ UNCHANGED <<protocol, profiles, pool, txLog, nOps>>
    /\ UNCHANGED <<oracleVars, pureVars>>

AmmNext ==
    \/ CreateLiquidityPool
    \/ UpdateProtocolParameters
    \/ SetProtocolPause
    \/ TransferAdmin
    \/ EmergencyPause
    \/ AddOracleUpdater
    \/ AddLiquidity
    \/ SwapExactInput
    \/ BatchSwaps
    \/ FlashLoan
    \/ RepayFlashLoan
    \/ TxEnd


\* ------------------------------------------------------ claims on the AMM

SwapDone == last.op \in {"swap_exact_input", "batch_swaps"} /\ last.ok

LegBefore(l) == l.reserve_in * l.reserve_out

LegAfter(l) == (l.reserve_in + l.amount_in) * (l.reserve_out - l.amount_out)

\* C1: across every executed swap (swap_exact_input, and every executed leg
\* of batch_swaps) the product reserveA * reserveB does not decrease, and it
\* increases strictly when the pool's fee rate is positive. The legs chain up
\* to the reserves the pool ends with.
C1_ProductNeverDecreases ==
    SwapDone =>
        /\ \A i \in 1..Len(last.legs) :
              /\ LegAfter(last.legs[i]) >= LegBefore(last.legs[i])
              /\ pool.swap_fee_rate > 0 => LegAfter(last.legs[i]) > LegBefore(last.legs[i])
        /\ \A i \in 1..(Len(last.legs) - 1) :
              /\ last.legs[i + 1].reserve_in = last.legs[i].reserve_in + last.legs[i].amount_in
              /\ last.legs[i + 1].reserve_out = last.legs[i].reserve_out - last.legs[i].amount_out
        /\ last.legs # <<>> =>
              LET l == last.legs[Len(last.legs)]
              IN  /\ pool.token_a_reserve = l.reserve_in + l.amount_in
                  /\ pool.token_b_reserve = l.reserve_out - l.amount_out

\* A constant-product swap with a positive fee took place and paid out.
C1_Witness ==
    /\ SwapDone /\ last.op = "swap_exact_input"
    /\ ~pool.is_stable_pool /\ pool.swap_fee_rate > 0
    /\ last.legs[1].amount_out > 1

\* C8: once the pool exists both reserves are positive in every state,
\* the states between a flash borrow and its repayment included.
C8_ReservesPositive ==
    pool.created => pool.token_a_reserve > 0 /\ pool.token_b_reserve > 0

\* A positive amount is on loan: the state between borrow and repay.
C8_Witness ==
    /\ inTx /\ receipts # <<>> /\ receipts[1].amount > 0
    /\ last.op = "swap_exact_input" /\ last.ok

\* C9: a transaction never completes with a FlashLoan receipt outstanding,
\* every receipt is consumed at most once, so at the end of a transaction the
\* repayments equal the loans, and the receipts alive are exactly the loans
\* not yet repaid.
C9_LoansMatchedByRepays ==
    /\ txLog.repays <= txLog.loans
    /\ inTx => Len(receipts) = txLog.loans - txLog.repays
    /\ ~inTx => receipts = <<>>
    /\ last.op = "tx_end" => last.outstanding = 0 /\ txLog.repays = txLog.loans

\* A transaction that borrowed has completed.
C9_Witness == last.op = "tx_end" /\ txLog.loans >= 1 /\ ~inTx

RepayStep == last'.op = "repay_flash_loan" /\ nOps' = nOps + 1

\* C10: repay_flash_loan succeeds exactly when the repayment is at least
\* amount + floor(amount * 9 / 10000), the fee fixed in the receipt by
\* flash_loan. On success the pool receives the repayment; on failure nothing
\* of the call or of its transaction persists: the pool is again what it was
\* before the transaction and the repayment is not taken.
C10_RepayIffCovered ==
    [][RepayStep =>
        /\ last'.ok <=> (last'.repayment >=
                            last'.receipt.amount + (last'.receipt.amount * 9) \div 10000)
        /\ last'.ok => pool' = [pool EXCEPT !.token_a_reserve = @ + last'.repayment]
        /\ ~last'.ok => pool' = txStart.pool /\ last'.err = EInsufficientBalance
      ]_vars

\* A loan of 100,000 was repaid with exactly 100,090, which was accepted.
C10_Witness ==
    /\ last.op = "repay_flash_loan" /\ last.ok
    /\ last.receipt.amount = 100000 /\ last.repayment = 100090

\* A repayment of 100,089 for a loan of 100,000 was rejected.
C10_WitnessRejected ==
    /\ last.op = "repay_flash_loan" /\ ~last.ok
    /\ last.receipt.amount = 100000 /\ last.repayment = 100089

FlashLoanStep == last'.op = "flash_loan" /\ nOps' = nOps + 1

\* C11: flash_loan succeeds exactly when amount <= floor(reserve / 10) of the
\* lending reserve at the time of the call. On success the reserve decreases
\* by exactly amount and one receipt for amount and its fee is added; on
\* failure the error is EInsufficientLiquidity, the pool is what it was
\* before the transaction and no receipt exists.
C11_LoanIffWithinTenth ==
    [][FlashLoanStep =>
        /\ last'.ok <=> (last'.amount <= pool.token_a_reserve \div 10)
        /\ last'.ok =>
              /\ pool' = [pool EXCEPT !.token_a_reserve = @ - last'.amount]
              /\ receipts' = Append(receipts,
                      [amount |-> last'.amount, fee |-> (last'.amount * 9) \div 10000])
        /\ ~last'.ok =>
              /\ last'.err = EInsufficientLiquidity
              /\ pool' = (IF inTx THEN txStart.pool ELSE pool)
              /\ receipts' = <<>>
      ]_vars

\* A loan of exactly a tenth of the reserve was granted.
C11_Witness ==
    /\ last.op = "flash_loan" /\ last.ok
    /\ last.amount > 0 /\ last.amount = last.reserve \div 10
    /\ pool.token_a_reserve = last.reserve - last.amount

\* A loan of one more than a tenth of the reserve was refused.
C11_WitnessRefused ==
    /\ last.op = "flash_loan" /\ ~last.ok
    /\ last.amount = last.reserve \div 10 + 1
    /\ receipts = <<>>

C25_WitnessAInFull ==
    /\ last.op = "add_liquidity" /\ last.ok
    /\ last.optimal_a = last.amount_a
    /\ last.refund_b > 0
    /\ last.lp_tokens_minted > 0

\* A deposit was refused because it would mint too few shares.
C25_WitnessSlippage ==
    /\ last.op = "add_liquidity" /\ ~last.ok /\ last.err = ESlippageTooHigh

\* What `shares` shares of the pool p are worth in the two tokens: the
\* proportional part of each reserve, truncated.
ProportionalRemoval(shares, p) ==
    [a |-> (shares * p.token_a_reserve) \div p.lp_token_supply,
     b |-> (shares * p.token_b_reserve) \div p.lp_token_supply]

\* C26: right after an add_liquidity that deposited (optimal_a, optimal_b)
\* and minted some shares, the proportional part of the pool that these
\* shares stand for is at most optimal_a of token A and at most optimal_b of
\* token B, and falls short of either by less than the worth of one share
\* plus one unit, the two truncations of the deposit and of the removal.
C26_DepositRoundTrip ==
    (last.op = "add_liquidity" /\ last.ok /\ pool.lp_token_supply > 0) =>
        LET back == ProportionalRemoval(last.lp_tokens_minted, pool)
        IN  /\ back.a <= last.optimal_a
            /\ back.b <= last.optimal_b
            /\ (last.optimal_a - back.a - 1) * pool.lp_token_supply
                   <= pool.token_a_reserve
            /\ (last.optimal_b - back.b - 1) * pool.lp_token_supply
                   <= pool.token_b_reserve

\* After a deposit and a swap that moved the ratio of the pool, a second
\* deposit minted shares worth less than what was deposited, but not nothing.
C26_Witness ==
    /\ last.op = "add_liquidity" /\ last.ok
    /\ \E caller \in Traders : profiles[caller].total_volume_traded > 0
    /\ last.lp_tokens_minted > 0
    /\ LET back == ProportionalRemoval(last.lp_tokens_minted, pool)
       IN  /\ back.a > 0
           /\ back.a < last.optimal_a \/ back.b < last.optimal_b

\* A deposit that minted no share: all of it stays in the pool.
C26_WitnessNoShare ==
    /\ last.op = "add_liquidity" /\ last.ok
    /\ last.lp_tokens_minted = 0
    /\ last.optimal_a > 0

\* =================================================== oracle_aggregator

\* ------------------------------------------------------------------ bounds

\* Clock steps explored, of TickMs each.
MaxTicks == 2
\* Accepted submissions explored per behaviour.
MaxSubmissions == 3

\* update_settings, set_pause and reset_circuit_breaker calls explored per
\* behaviour; update_settings and set_pause calls that would change nothing
\* are not explored, and resets are explored while the breaker is triggered.
MaxConfigChanges == 2

\* One clock step: 300 seconds, the default stale_threshold.
TickMs == 300 * 1000

\* ------------------------------------------------------------- constants

EOracleNotAuthorized == 3001
EInsufficientDataSources == 3003
EInvalidConfidence == 3005
ECircuitBreakerTriggered == 3006
\* vec_map::EKeyAlreadyExists of the framework, raised by vec_map::insert
EKeyAlreadyExists == 0

MIN_CONFIDENCE_THRESHOLD == 70
MAX_PRICE_DEVIATION == 1000
MIN_DATA_SOURCES == 3
TWAP_WINDOW_SIZE == 24
CIRCUIT_BREAKER_THRESHOLD == 2000
StaleThresholdMs == 5 * 60 * 1000
InitialReputation == 100
MaxConfidence == 100

\* ---------------------------------------------------------------- inputs

OracleAdmin == "admin"
Reporters == {"r1", "r2", "r3"}
AdminCallers == {"admin", "r1"}
Stakes == {0, 1}
Prices == {100, 104, 140, 150}
Confidences == {100, 101}
\* The pair the feed is added for, as in the test suite, and a pair that is
\* never added.
FeedPair == "DFI/UTL"
PairArgs == {FeedPair, "BTC/USD"}
\* option::none() for an Option<u64> argument: a value no u64 takes.
None == -1
MinSourcesArgs == {None, 1, 2}
ConfidenceThresholdArgs == {None, 101}
\* settings.deviation_threshold is read by no function of the module.
DeviationThresholdArgs == {None}

\* ------------------------------------------------------------- helpers

NoNode ==
    [exists |-> FALSE, is_authorized |-> FALSE, reputation_score |-> 0,
     total_submissions |-> 0, stake_amount |-> 0, last_submission |-> 0]

NoFeed ==
    [exists |-> FALSE, current_price |-> 0, confidence |-> 0, last_update |-> 0,
     source_count |-> 0, twap_24h |-> 0, volume_weighted_price |-> 0,
     price_sources |-> <<>>, is_active |-> FALSE]

NoBreaker ==
    [is_triggered |-> FALSE, trigger_price |-> 0, trigger_timestamp |-> 0,
     reset_threshold |-> 0, consecutive_anomalies |-> 0, last_normal_price |-> 0]

NoHistory == [hourly_prices |-> <<>>, max_history_size |-> 0]

calculate_price_deviation(new_price, old_price) ==
    IF old_price = 0 THEN 0
    ELSE LET diff == IF new_price > old_price THEN new_price - old_price
                     ELSE old_price - new_price
         IN  (diff * 10000) \div old_price

\* The staleness test left out: every buffered submission counts.
NotStaleSkipped(submission, current_time, stale_threshold) == TRUE

\* The staleness test of aggregate_prices on one buffered submission.
NotStale(submission, current_time, stale_threshold) ==
    current_time - submission.timestamp <= stale_threshold

\* The submissions the first loop of aggregate_prices keeps, in buffer order.
ValidSubmissions(submissions, current_time, stale_threshold) ==
    SelectSeq(submissions, LAMBDA sub : NotStale(sub, current_time, stale_threshold))

RECURSIVE TotalWeight(_)
TotalWeight(valid) ==
    IF valid = <<>> THEN 0 ELSE valid[1].confidence + TotalWeight(Tail(valid))

RECURSIVE WeightedSum(_)
\* The second loop of aggregate_prices: each term is truncated on its own.
WeightedSum(valid) ==
    IF valid = <<>> THEN 0
    ELSE (valid[1].price * valid[1].confidence) \div 100 + WeightedSum(Tail(valid))

WeightedPrice(valid) ==
    IF TotalWeight(valid) > 0
    THEN (WeightedSum(valid) * 100) \div TotalWeight(valid)
    ELSE WeightedSum(valid)

\* Mutant: the sum of the confidences, not divided by the number of sources.
AvgConfidenceUndivided(total_weight, source_count) == total_weight

\* The confidence score aggregate_prices computes for a round.
AvgConfidence(total_weight, source_count) == total_weight \div source_count

\* The trip test with the threshold itself included.
TripsBreakerAtThreshold(weighted_price, old_price, circuit_breaker_enabled) ==
    /\ old_price > 0
    /\ circuit_breaker_enabled
    /\ calculate_price_deviation(weighted_price, old_price) >= CIRCUIT_BREAKER_THRESHOLD

\* The test of aggregate_prices that trips the breaker instead of publishing.
TripsBreaker(weighted_price, old_price, circuit_breaker_enabled) ==
    /\ old_price > 0
    /\ circuit_breaker_enabled
    /\ calculate_price_deviation(weighted_price, old_price) > CIRCUIT_BREAKER_THRESHOLD

\* The buffer aggregate_prices leaves behind after publishing: it is emptied
\* and the first entry of the old buffer is inserted again.
BufferAfterPublish(submissions) == << submissions[1] >>

\* The outcome of aggregate_prices on the buffer `submissions`.
aggregate_prices(submissions, current_time) ==
    LET valid == ValidSubmissions(submissions, current_time, settings.stale_threshold)
        source_count == Len(valid)
        weighted_price == WeightedPrice(valid)
        old_price == feed.current_price
    IN  IF ~(source_count >= settings.min_sources)
        THEN [round |-> "failed", err |-> EInsufficientDataSources]
        ELSE IF TripsBreaker(weighted_price, old_price, settings.circuit_breaker_enabled)
        THEN [round |-> "tripped", used |-> valid, aggregate |-> weighted_price,
              feed |-> [feed EXCEPT !.price_sources = submissions],
              breaker |-> [breaker EXCEPT !.is_triggered = TRUE,
                                          !.trigger_price = weighted_price,
                                          !.trigger_timestamp = current_time,
                                          !.consecutive_anomalies = @ + 1]]
        ELSE [round |-> "published", used |-> valid, aggregate |-> weighted_price,
              feed |-> [feed EXCEPT !.current_price = weighted_price,
                                    !.confidence = AvgConfidence(TotalWeight(valid), source_count),
                                    !.last_update = current_time,
                                    !.source_count = source_count,
                                    !.price_sources = BufferAfterPublish(submissions)],
              breaker |-> breaker]

RECURSIVE SumWeightedPrices(_)
SumWeightedPrices(prices) ==
    IF prices = <<>> THEN 0
    ELSE prices[1].weighted_price + SumWeightedPrices(Tail(prices))

\* The mean of the last `hours` buckets of the history, 0 when it is empty.
calculate_twap(hourly_prices, hours) ==
    LET length == Len(hourly_prices)
        start_index == IF length > hours THEN length - hours ELSE 0
        window == SubSeq(hourly_prices, start_index + 1, length)
    IN  IF length = 0 THEN 0
        ELSE IF Len(window) > 0 THEN SumWeightedPrices(window) \div Len(window)
        ELSE 0

get_twap == IF feed.exists THEN feed.twap_24h ELSE 0

\* get_price: the published aggregate of a pair of the table, zeros otherwise.
get_price(pair) ==
    IF ~(feed.exists /\ pair = FeedPair)
    THEN [price |-> 0, confidence |-> 0, source_count |-> 0, deviation |-> 0,
          timestamp |-> 0, is_circuit_breaker_active |-> FALSE]
    ELSE [price |-> feed.current_price, confidence |-> feed.confidence,
          source_count |-> feed.source_count, deviation |-> 0,
          timestamp |-> feed.last_update,
          is_circuit_breaker_active |-> breaker.is_triggered]

\* is_oracle_healthy: current_time is an argument of the caller, and
\* current_time - last_update is a u64 subtraction, which aborts below 0.
HealthyUnder(aggregation_settings, pair, current_time) ==
    IF ~(feed.exists /\ pair = FeedPair) THEN [ok |-> TRUE, healthy |-> FALSE]
    ELSE IF current_time < feed.last_update THEN [ok |-> FALSE, healthy |-> FALSE]
    ELSE LET is_fresh ==
                 current_time - feed.last_update <= aggregation_settings.stale_threshold
             has_confidence ==
                 feed.confidence >= aggregation_settings.confidence_threshold
             not_breaker == ~breaker.is_triggered
         IN  [ok |-> TRUE, healthy |-> is_fresh /\ has_confidence /\ not_breaker]

is_oracle_healthy(pair, current_time) == HealthyUnder(settings, pair, current_time)

\* Times is_oracle_healthy is asked about: every clock value and two steps on.
TimeArgs == {k * TickMs : k \in 0..(MaxTicks + 2)}

InBuffer(submissions, who) == \E i \in 1..Len(submissions) : submissions[i].source = who

\* The check submit_price makes while the breaker is triggered.
PassesBreaker(price) ==
    breaker.is_triggered =>
        calculate_price_deviation(price, breaker.last_normal_price) <= breaker.reset_threshold

OracleInit ==
    /\ settings = [min_sources |-> MIN_DATA_SOURCES,
                   confidence_threshold |-> MIN_CONFIDENCE_THRESHOLD,
                   deviation_threshold |-> MAX_PRICE_DEVIATION,
                   stale_threshold |-> StaleThresholdMs,
                   circuit_breaker_enabled |-> TRUE,
                   twap_enabled |-> TRUE,
                   volume_weighting_enabled |-> TRUE]
    /\ is_paused = FALSE
    /\ oracle_nodes = [a \in Reporters |-> NoNode]
    /\ feed = NoFeed
    /\ breaker = NoBreaker
    /\ history = NoHistory
    /\ clock = 0
    /\ olast = [op |-> "init"]
    /\ config_changes = 0
    /\ rounds = [seen |-> FALSE, since |-> 0, min_sources |-> 0,
                 tripped |-> FALSE, trip_from |-> 0, after_trip |-> <<>>]

\* The outcome of an entry call: it commits, or it aborts with a code and the
\* platform rolls the transaction back, so an aborting call is not a step.
Succeeds == [ok |-> TRUE, err |-> 0]

Aborts(code) == [ok |-> FALSE, err |-> code]

\* A committed oracle call.
OracleOk(record) ==
    /\ olast' = record
    /\ UNCHANGED <<ammVars, pureVars>>

register_oracle_node_outcome(caller, stake_amount) ==
    IF is_paused THEN Aborts(EOracleNotAuthorized)
    ELSE IF ~(stake_amount > 0) THEN Aborts(EOracleNotAuthorized)
    ELSE IF oracle_nodes[caller].exists THEN Aborts(EOracleNotAuthorized)
    ELSE Succeeds

register_oracle_node(caller, stake_amount) ==
    /\ register_oracle_node_outcome(caller, stake_amount) = Succeeds
    /\ oracle_nodes' = [oracle_nodes EXCEPT ![caller] =
            [exists |-> TRUE, is_authorized |-> FALSE,
             reputation_score |-> InitialReputation, total_submissions |-> 0,
             stake_amount |-> stake_amount, last_submission |-> 0]]
    /\ OracleOk([op |-> "register_oracle_node"])
    /\ UNCHANGED <<settings, is_paused, feed, breaker, history, clock, config_changes, rounds>>

\* The code treats all reporter addresses alike, so of several reporters in
\* the same state (same OracleNode record, none of them in the buffer) only
\* the first in the order of Rank is explored as a caller or as a target.
Rank == [r1 |-> 1, r2 |-> 2, r3 |-> 3]

Canonical(a) ==
    \A b \in Reporters :
        Rank[b] < Rank[a] =>
            ~(/\ oracle_nodes[b] = oracle_nodes[a]
              /\ ~InBuffer(feed.price_sources, a)
              /\ ~InBuffer(feed.price_sources, b))

RegisterOracleNode ==
    \E caller \in Reporters, stake_amount \in Stakes :
        /\ Canonical(caller)
        /\ register_oracle_node(caller, stake_amount)

authorize_oracle_node_outcome(caller, node_address) ==
    IF caller # OracleAdmin THEN Aborts(EOracleNotAuthorized)
    ELSE IF ~oracle_nodes[node_address].exists THEN Aborts(EOracleNotAuthorized)
    ELSE Succeeds

authorize_oracle_node(caller, node_address) ==
    /\ authorize_oracle_node_outcome(caller, node_address) = Succeeds
    /\ oracle_nodes' = [oracle_nodes EXCEPT ![node_address].is_authorized = TRUE]
    /\ OracleOk([op |-> "authorize_oracle_node"])
    /\ UNCHANGED <<settings, is_paused, feed, breaker, history, clock, config_changes, rounds>>

\* Authorizing an authorized node again changes nothing and is not explored.
AuthorizeOracleNode ==
    \E caller \in AdminCallers, node_address \in Reporters :
        /\ Canonical(node_address)
        /\ ~oracle_nodes[node_address].is_authorized
        /\ authorize_oracle_node(caller, node_address)

\* Mutant: the reset threshold is the whole of MAX_PRICE_DEVIATION.
InitialResetThresholdFull == MAX_PRICE_DEVIATION

\* The reset_threshold add_price_feed gives a new CircuitBreaker.
InitialResetThreshold == MAX_PRICE_DEVIATION \div 2

add_price_feed_outcome(caller) ==
    IF caller # OracleAdmin THEN Aborts(EOracleNotAuthorized)
    ELSE IF feed.exists THEN Aborts(EOracleNotAuthorized)
    ELSE Succeeds

add_price_feed(caller) ==
    /\ add_price_feed_outcome(caller) = Succeeds
    /\ feed' = [NoFeed EXCEPT !.exists = TRUE, !.is_active = TRUE]
    /\ history' = [hourly_prices |-> <<>>,
                   max_history_size |-> TWAP_WINDOW_SIZE * 30]
    /\ breaker' = [NoBreaker EXCEPT !.reset_threshold = InitialResetThreshold]
    /\ OracleOk([op |-> "add_price_feed"])
    /\ UNCHANGED <<settings, is_paused, oracle_nodes, clock, config_changes, rounds>>

AddPriceFeed == \E caller \in AdminCallers : add_price_feed(caller)

RECURSIVE SumSubmissions(_)
SumSubmissions(S) ==
    IF S = {} THEN 0
    ELSE LET a == CHOOSE x \in S : TRUE
         IN  oracle_nodes[a].total_submissions + SumSubmissions(S \ {a})

\* The history kept for the claims: accepted submissions since the last round,
\* and the submissions accepted since the breaker last tripped.
RoundsAfter(done, submission) ==
    LET ran == done.round \in {"published", "tripped"}
    IN  [seen |-> rounds.seen \/ ran,
         since |-> IF ran THEN 0 ELSE rounds.since + 1,
         min_sources |-> IF ran THEN settings.min_sources ELSE rounds.min_sources,
         tripped |-> rounds.tripped \/ done.round = "tripped",
         trip_from |-> IF done.round = "tripped" THEN feed.current_price
                       ELSE rounds.trip_from,
         after_trip |-> IF done.round = "tripped" THEN <<>>
                        ELSE IF rounds.tripped /\ Len(rounds.after_trip) < settings.min_sources
                        THEN Append(rounds.after_trip, submission)
                        ELSE rounds.after_trip]

\* The PriceSubmission submit_price builds, with the key it is stored under.
NewSubmission(submitter, price, confidence) ==
    [source |-> submitter, price |-> price, confidence |-> confidence,
     timestamp |-> clock]

\* The tail of submit_price once the submission is in the buffer: the round,
\* if the buffer has reached min_sources.
RoundOf(submissions) ==
    IF Len(submissions) >= settings.min_sources
    THEN aggregate_prices(submissions, clock)
    ELSE [round |-> "none", used |-> <<>>, aggregate |-> 0,
          feed |-> [feed EXCEPT !.price_sources = submissions],
          breaker |-> breaker]

\* Mutant: submit_price does not look at the pause flag.
SubmissionsNeverPaused == FALSE

\* The pause test submit_price begins with.
SubmissionsPaused == is_paused

\* Mutant: being registered is enough.
NodeRegistered(submitter) == oracle_nodes[submitter].exists

\* The authorization test of submit_price on the registered node.
NodeAuthorized(submitter) == oracle_nodes[submitter].is_authorized

\* The events of a submit_price call: aggregate_prices emits PriceUpdated when
\* it publishes, trigger_circuit_breaker emits CircuitBreakerTriggered.
RoundEvents(round) ==
    IF round = "published" THEN <<"PriceUpdated">>
    ELSE IF round = "tripped" THEN <<"CircuitBreakerTriggered">>
    ELSE <<>>

submit_price_outcome(submitter, price, confidence) ==
    IF SubmissionsPaused THEN Aborts(EOracleNotAuthorized)
    ELSE IF ~(confidence <= MaxConfidence) THEN Aborts(EInvalidConfidence)
    ELSE IF ~oracle_nodes[submitter].exists THEN Aborts(EOracleNotAuthorized)
    ELSE IF ~NodeAuthorized(submitter) THEN Aborts(EOracleNotAuthorized)
    ELSE IF ~feed.exists THEN Aborts(EOracleNotAuthorized)
    ELSE IF ~PassesBreaker(price) THEN Aborts(ECircuitBreakerTriggered)
    ELSE IF InBuffer(feed.price_sources, submitter) THEN Aborts(EKeyAlreadyExists)
    ELSE LET done == RoundOf(Append(feed.price_sources,
                                    NewSubmission(submitter, price, confidence)))
         IN  IF done.round = "failed" THEN Aborts(done.err) ELSE Succeeds

\* Mutant: what submit_price wrote before it aborted stays written.
SubmitPriceKeepsWrites(submitter, price, confidence) ==
    LET submission == NewSubmission(submitter, price, confidence)
    IN  IF ~feed.exists \/ InBuffer(feed.price_sources, submitter)
        THEN [feed |-> feed, breaker |-> breaker, oracle_nodes |-> oracle_nodes]
        ELSE [feed |-> [feed EXCEPT !.price_sources = Append(@, submission)],
              breaker |-> breaker,
              oracle_nodes |-> [oracle_nodes EXCEPT
                                    ![submitter].total_submissions = @ + 1,
                                    ![submitter].last_submission = clock]]

\* The feed, the breaker and the nodes after a submit_price call: what the
\* call wrote when it returned, what they were when it aborted.
AfterSubmitPrice(submitter, price, confidence) ==
    LET submission == NewSubmission(submitter, price, confidence)
        done == RoundOf(Append(feed.price_sources, submission))
    IN  IF submit_price_outcome(submitter, price, confidence) = Succeeds
        THEN [feed |-> done.feed, breaker |-> done.breaker,
              oracle_nodes |-> [oracle_nodes EXCEPT
                                    ![submitter].total_submissions = @ + 1,
                                    ![submitter].last_submission = clock]]
        ELSE [feed |-> feed, breaker |-> breaker, oracle_nodes |-> oracle_nodes]

submit_price(submitter, price, confidence) ==
    LET submission == NewSubmission(submitter, price, confidence)
        done == RoundOf(Append(feed.price_sources, submission))
        after == AfterSubmitPrice(submitter, price, confidence)
    IN  /\ submit_price_outcome(submitter, price, confidence) = Succeeds
        /\ feed' = after.feed
        /\ breaker' = after.breaker
        /\ oracle_nodes' = after.oracle_nodes
        /\ rounds' = RoundsAfter(done, submission)
        /\ OracleOk([op |-> "submit_price", submission |-> submission,
                     buffer |-> Append(feed.price_sources, submission),
                     round |-> done.round, events |-> RoundEvents(done.round),
                     used |-> done.used,
                     aggregate |-> done.aggregate, since |-> rounds.since + 1])
        /\ UNCHANGED <<settings, is_paused, history, clock, config_changes>>

SubmitPrice ==
    \E submitter \in Reporters, price \in Prices, confidence \in Confidences :
        /\ SumSubmissions(Reporters) < MaxSubmissions
        /\ Canonical(submitter)
        /\ submit_price(submitter, price, confidence)

\* The value an Option<u64> argument leaves in a field: the supplied one, or
\* the current one when the argument is none.
SuppliedNeverStored(option, current) == current

SuppliedOrCurrent(option, current) == IF option # None THEN option ELSE current

\* The settings a successful update_settings call leaves.
SettingsAfter(s, min_sources, confidence_threshold, deviation_threshold) ==
    [s EXCEPT
        !.min_sources = SuppliedOrCurrent(min_sources, @),
        !.confidence_threshold = SuppliedOrCurrent(confidence_threshold, @),
        !.deviation_threshold = SuppliedOrCurrent(deviation_threshold, @)]

update_settings_outcome(caller, min_sources, confidence_threshold, deviation_threshold) ==
    IF caller # OracleAdmin THEN Aborts(EOracleNotAuthorized)
    ELSE IF confidence_threshold # None /\ ~(confidence_threshold <= MaxConfidence)
    THEN Aborts(EInvalidConfidence)
    ELSE Succeeds

update_settings(caller, min_sources, confidence_threshold, deviation_threshold) ==
    /\ update_settings_outcome(caller, min_sources, confidence_threshold,
                               deviation_threshold) = Succeeds
    /\ settings' = SettingsAfter(settings, min_sources, confidence_threshold,
                                 deviation_threshold)
    /\ OracleOk([op |-> "update_settings"])
    /\ config_changes' = config_changes + 1
    /\ UNCHANGED <<is_paused, oracle_nodes, feed, breaker, history, clock, rounds>>

UpdateSettings ==
    \E caller \in AdminCallers, min_sources \in MinSourcesArgs,
       confidence_threshold \in ConfidenceThresholdArgs,
       deviation_threshold \in DeviationThresholdArgs :
        /\ config_changes < MaxConfigChanges
        /\ (min_sources # None => min_sources # settings.min_sources)
        /\ (min_sources # None \/ confidence_threshold # None
                \/ deviation_threshold # None)
        /\ update_settings(caller, min_sources, confidence_threshold,
                           deviation_threshold)

reset_circuit_breaker_outcome(caller) ==
    IF caller # OracleAdmin THEN Aborts(EOracleNotAuthorized) ELSE Succeeds

\* The breaker of the modelled pair after reset_circuit_breaker(pair): the
\* table of breakers holds the pair once add_price_feed has added it.
ResetForgetsTrigger(pair) ==
    IF feed.exists /\ pair = FeedPair
    THEN [NoBreaker EXCEPT !.reset_threshold = breaker.reset_threshold]
    ELSE breaker

BreakerAfterReset(pair) ==
    IF feed.exists /\ pair = FeedPair
    THEN [breaker EXCEPT !.is_triggered = FALSE, !.consecutive_anomalies = 0]
    ELSE breaker

reset_circuit_breaker(caller, pair) ==
    /\ reset_circuit_breaker_outcome(caller) = Succeeds
    /\ breaker' = BreakerAfterReset(pair)
    /\ OracleOk([op |-> "reset_circuit_breaker", pair |-> pair])
    /\ config_changes' = config_changes + 1
    /\ UNCHANGED <<settings, is_paused, oracle_nodes, feed, history, clock, rounds>>

ResetCircuitBreaker ==
    \E caller \in AdminCallers, pair \in PairArgs :
        /\ config_changes < MaxConfigChanges
        /\ breaker.is_triggered
        /\ reset_circuit_breaker(caller, pair)

set_pause_outcome(caller) ==
    IF caller # OracleAdmin THEN Aborts(EOracleNotAuthorized) ELSE Succeeds

set_pause(caller, paused) ==
    /\ set_pause_outcome(caller) = Succeeds
    /\ is_paused' = paused
    /\ OracleOk([op |-> "set_pause"])
    /\ config_changes' = config_changes + 1
    /\ UNCHANGED <<settings, oracle_nodes, feed, breaker, history, clock, rounds>>

SetPause ==
    \E caller \in AdminCallers, paused \in BOOLEAN :
        /\ config_changes < MaxConfigChanges
        /\ paused # is_paused
        /\ set_pause(caller, paused)

\* Time passes on the ledger clock. Only differences between the clock and the
\* timestamps of submissions are read, so time starts when the pair exists.
Tick ==
    /\ feed.exists
    /\ clock + TickMs <= MaxTicks * TickMs
    /\ clock' = clock + TickMs
    /\ olast' = [op |-> "tick"]
    /\ UNCHANGED <<settings, is_paused, oracle_nodes, feed, breaker, history,
                   config_changes, rounds>>
    /\ UNCHANGED <<ammVars, pureVars>>

OracleNext ==
    \/ RegisterOracleNode
    \/ AuthorizeOracleNode
    \/ AddPriceFeed
    \/ SubmitPrice
    \/ UpdateSettings
    \/ ResetCircuitBreaker
    \/ SetPause
    \/ Tick

\* ------------------------------------------------------ oracle claims

\* A step that is an accepted submit_price call.
SubmitStep ==
    /\ olast'.op = "submit_price"
    /\ \E r \in Reporters :
           oracle_nodes'[r].total_submissions = oracle_nodes[r].total_submissions + 1

\* The submissions of `buffer` that are not stale at the current clock.
FreshIn(buffer) ==
    {i \in 1..Len(buffer) : clock - buffer[i].timestamp <= settings.stale_threshold}

\* A submit_price call that gets as far as running a round.
ReachesRound(submitter, price, confidence) ==
    /\ ~is_paused
    /\ confidence <= 100
    /\ oracle_nodes[submitter].exists /\ oracle_nodes[submitter].is_authorized
    /\ feed.exists
    /\ PassesBreaker(price)
    /\ ~InBuffer(feed.price_sources, submitter)
    /\ Len(feed.price_sources) + 1 >= settings.min_sources

\* A round that would be left with fewer than min_sources fresh submissions.
RoundStarved(submitter, price, confidence) ==
    /\ ReachesRound(submitter, price, confidence)
    /\ Cardinality(FreshIn(Append(feed.price_sources,
                                  NewSubmission(submitter, price, confidence))))
           < settings.min_sources

\* C2: current_price changes only in a submit_price call whose round published,
\* and every publishing round used at least min_sources submissions of the
\* buffer, each with current_time - timestamp <= stale_threshold; a round left
\* with fewer than min_sources such submissions aborts with
\* EInsufficientDataSources, every other round lets the call commit.
C2_PublishedFromFreshQuorum ==
    /\ [](\A submitter \in Reporters, price \in Prices, confidence \in Confidences :
            ReachesRound(submitter, price, confidence) =>
                submit_price_outcome(submitter, price, confidence) =
                    IF RoundStarved(submitter, price, confidence)
                    THEN Aborts(EInsufficientDataSources)
                    ELSE Succeeds)
    /\ [][/\ feed'.current_price # feed.current_price =>
                SubmitStep /\ olast'.round = "published"
          /\ SubmitStep /\ olast'.round = "published" =>
                /\ Len(olast'.used) >= settings.min_sources
                /\ \A i \in 1..Len(olast'.used) :
                       /\ clock - olast'.used[i].timestamp <= settings.stale_threshold
                       /\ \E j \in 1..Len(olast'.buffer) :
                              olast'.buffer[j] = olast'.used[i]
                /\ feed'.current_price = olast'.aggregate
                /\ feed'.source_count = Len(olast'.used)
         ]_vars

\* A round published although a stale submission of the buffer was dropped.
C2_Witness ==
    /\ olast.op = "submit_price" /\ olast.round = "published"
    /\ Len(olast.used) < Len(olast.buffer)
    /\ feed.current_price = olast.aggregate

\* A submit_price call whose round is starved by stale submissions.
C2_WitnessStarved ==
    \E submitter \in Reporters, price \in Prices, confidence \in Confidences :
        /\ RoundStarved(submitter, price, confidence)
        /\ submit_price_outcome(submitter, price, confidence)
               = Aborts(EInsufficientDataSources)

\* The deviation in basis points of `new_price` from a non-zero `old_price`.
DeviationBps(new_price, old_price) ==
    ((IF new_price > old_price THEN new_price - old_price
      ELSE old_price - new_price) * 10000) \div old_price

\* C3: a round whose aggregate deviates from the published non-zero price by
\* more than 2000 bps commits without publishing: current_price, confidence,
\* last_update and source_count are kept, the breaker is triggered with the
\* aggregate as trigger_price, the clock as trigger_timestamp and
\* consecutive_anomalies one higher. A round at 2000 bps or less, or with no
\* published price yet, publishes its aggregate.
C3_TripAboveThreshold ==
    [][SubmitStep /\ olast'.round \in {"tripped", "published"} =>
        LET old == feed.current_price
            agg == olast'.aggregate
        IN  IF old > 0 /\ DeviationBps(agg, old) > 2000
            THEN /\ olast'.round = "tripped"
                 /\ feed'.current_price = old
                 /\ feed'.confidence = feed.confidence
                 /\ feed'.last_update = feed.last_update
                 /\ feed'.source_count = feed.source_count
                 /\ breaker' = [breaker EXCEPT !.is_triggered = TRUE,
                                               !.trigger_price = agg,
                                               !.trigger_timestamp = clock,
                                               !.consecutive_anomalies = @ + 1]
            ELSE /\ olast'.round = "published"
                 /\ feed'.current_price = agg
                 /\ breaker' = breaker
      ]_vars

\* Published price 100, a round aggregating to 125 tripped the breaker.
C3_Witness ==
    /\ olast.op = "submit_price" /\ olast.round = "tripped"
    /\ olast.aggregate = 125 /\ feed.current_price = 100
    /\ breaker.is_triggered /\ breaker.trigger_price = 125
    /\ breaker.consecutive_anomalies = 1

\* Published price 100, a round aggregating to 120 (exactly 2000 bps) published.
C3_WitnessAtThreshold ==
    /\ olast.op = "submit_price" /\ olast.round = "published"
    /\ olast.aggregate = 120 /\ feed.current_price = 120
    /\ olast.buffer[1].price = 100 /\ Len(olast.buffer) = 2

\* C4 (as the specification states it): while the breaker is triggered, an
\* accepted submission within the reset threshold of the published price whose
\* round publishes leaves the breaker not triggered.
C4_SubmissionResetsBreaker ==
    [][/\ SubmitStep
       /\ breaker.is_triggered
       /\ feed.current_price > 0
       /\ DeviationBps(olast'.submission.price, feed.current_price)
              <= breaker.reset_threshold
       /\ olast'.round = "published"
       => ~breaker'.is_triggered
      ]_vars

\* C5 (as the specification states it): once the breaker has tripped with
\* published price P, when min_sources fresh submissions of one price q within
\* the reset threshold of P have been accepted, the round publishes and
\* current_price is q.
C5_QuorumAfterTripPublishes ==
    [][/\ SubmitStep
       /\ breaker.is_triggered
       /\ rounds.trip_from > 0
       /\ Len(rounds'.after_trip) = settings.min_sources
       /\ Len(rounds.after_trip) = settings.min_sources - 1
       /\ \A i \in 1..Len(rounds'.after_trip) :
              /\ rounds'.after_trip[i].price = olast'.submission.price
              /\ clock - rounds'.after_trip[i].timestamp <= settings.stale_threshold
       /\ DeviationBps(olast'.submission.price, rounds.trip_from)
              <= breaker.reset_threshold
       => /\ olast'.round = "published"
          /\ feed'.current_price = olast'.submission.price
      ]_vars

\* C6 (as the specification states it): after a round has completed, and with
\* min_sources unchanged since, an accepted submission runs a round exactly
\* when it is the min_sources-th since that round.
C6_RoundEveryMinSources ==
    [][/\ SubmitStep
       /\ rounds.seen
       /\ rounds.min_sources = settings.min_sources
       => (olast'.round # "none" <=> rounds.since + 1 = settings.min_sources)
      ]_vars

\* C7 (as the specification states it): after a round publishes, the
\* submission buffer of the pair is empty.
C7_BufferEmptyAfterPublish ==
    (olast.op = "submit_price" /\ olast.round = "published")
        => feed.price_sources = <<>>

\* ------------------------------------------------------ specifications

\* What add_price_feed leaves behind, but for the reset threshold: the breaker
\* not triggered and otherwise zero, the feed with price 0 and an empty
\* buffer, the history empty with room for 720 buckets; and add_price_feed
\* aborts for every caller once the pair exists.
AfterAddPair(reset_threshold) ==
    /\ olast.op = "add_price_feed" =>
          /\ feed.exists /\ feed.is_active
          /\ feed.current_price = 0 /\ feed.price_sources = <<>>
          /\ breaker = [is_triggered |-> FALSE, trigger_price |-> 0,
                        trigger_timestamp |-> 0, reset_threshold |-> reset_threshold,
                        consecutive_anomalies |-> 0, last_normal_price |-> 0]
          /\ history = [hourly_prices |-> <<>>, max_history_size |-> 720]
    /\ feed.exists =>
          \A caller \in AdminCallers : ~add_price_feed_outcome(caller).ok

C16_OnlyAuthorizedValidSubmissions ==
    /\ \A submitter \in Reporters, price \in Prices, confidence \in Confidences :
          LET out == submit_price_outcome(submitter, price, confidence)
              authorized == /\ oracle_nodes[submitter].exists
                            /\ oracle_nodes[submitter].is_authorized
          IN  /\ ~authorized =>
                    /\ ~out.ok
                    /\ confidence <= 100 => out.err = EOracleNotAuthorized
              /\ confidence > 100 =>
                    /\ ~out.ok
                    /\ ~is_paused => out.err = EInvalidConfidence
              /\ (~out.ok /\ out.err = EInvalidConfidence) => confidence > 100
    /\ \A i \in 1..Len(feed.price_sources) :
          LET sub == feed.price_sources[i]
          IN  /\ sub.confidence <= 100
              /\ oracle_nodes[sub.source].exists
              /\ oracle_nodes[sub.source].is_authorized

\* A registered reporter that is not authorized is refused, while an
\* authorized one, already in the buffer, is followed by another that is
\* accepted with confidence 100 and refused with confidence 101.
C16_Witness ==
    /\ feed.exists /\ ~is_paused /\ feed.price_sources # <<>>
    /\ \E a, b \in Reporters :
          /\ oracle_nodes[a].exists /\ ~oracle_nodes[a].is_authorized
          /\ submit_price_outcome(a, 100, 100) = Aborts(EOracleNotAuthorized)
          /\ oracle_nodes[b].is_authorized
          /\ submit_price_outcome(b, 100, 100) = Succeeds
          /\ submit_price_outcome(b, 100, 101) = Aborts(EInvalidConfidence)

\* C14 (as the specification states it): while the breaker is triggered, an
\* accepted submission whose price deviates from the last normally published
\* price by more than the reset threshold is left out: the buffer is not
\* changed by it and it runs no round.
C14_DeviatingSubmissionExcluded ==
    [][/\ SubmitStep
       /\ breaker.is_triggered
       /\ feed.current_price > 0
       /\ DeviationBps(olast'.submission.price, feed.current_price)
              > breaker.reset_threshold
       => /\ feed'.price_sources = feed.price_sources
          /\ olast'.round = "none"
      ]_vars

\* ------------------------------------------- u64 and u128 arithmetic
\*
\* Amounts of the size the protocol handles (10^11 units in its tests) and
\* their products do not fit the integers of the model checker, so the
\* arithmetic of the calls is repeated here at its full width: a number is
\* the sequence of its digits in base Limb, lowest digit first, without
\* leading zeros; an operation of Move aborts when its result passes the
\* largest value of its type.

Limb == 10000

RECURSIVE BigNorm(_)
BigNorm(a) ==
    IF a = <<>> THEN a
    ELSE IF a[Len(a)] = 0 THEN BigNorm(SubSeq(a, 1, Len(a) - 1))
    ELSE a

RECURSIVE BigOf(_)
BigOf(n) == IF n = 0 THEN <<>> ELSE <<n % Limb>> \o BigOf(n \div Limb)

RECURSIVE BigAddCarry(_, _, _)
BigAddCarry(a, b, carry) ==
    IF a = <<>> /\ b = <<>> THEN (IF carry = 0 THEN <<>> ELSE <<carry>>)
    ELSE LET x == IF a = <<>> THEN 0 ELSE a[1]
             y == IF b = <<>> THEN 0 ELSE b[1]
             sum == x + y + carry
         IN  <<sum % Limb>> \o BigAddCarry(IF a = <<>> THEN a ELSE Tail(a),
                                           IF b = <<>> THEN b ELSE Tail(b),
                                           sum \div Limb)

BigAdd(a, b) == BigNorm(BigAddCarry(a, b, 0))

RECURSIVE BigSubBorrow(_, _, _)
BigSubBorrow(a, b, borrow) ==
    IF a = <<>> THEN <<>>
    ELSE LET y == (IF b = <<>> THEN 0 ELSE b[1]) + borrow
             rest == IF b = <<>> THEN b ELSE Tail(b)
         IN  IF a[1] >= y
             THEN <<a[1] - y>> \o BigSubBorrow(Tail(a), rest, 0)
             ELSE <<a[1] + Limb - y>> \o BigSubBorrow(Tail(a), rest, 1)

\* a - b for a >= b.
BigSub(a, b) == BigNorm(BigSubBorrow(a, b, 0))

RECURSIVE BigMulLimb(_, _, _)
BigMulLimb(a, k, carry) ==
    IF a = <<>> THEN (IF carry = 0 THEN <<>> ELSE <<carry>>)
    ELSE LET sum == a[1] * k + carry
         IN  <<sum % Limb>> \o BigMulLimb(Tail(a), k, sum \div Limb)

RECURSIVE BigMul(_, _)
BigMul(a, b) ==
    IF a = <<>> \/ b = <<>> THEN <<>>
    ELSE BigAdd(BigNorm(BigMulLimb(b, a[1], 0)),
                LET rest == BigMul(Tail(a), b)
                IN  IF rest = <<>> THEN rest ELSE <<0>> \o rest)

RECURSIVE BigLeq(_, _)
BigLeq(a, b) ==
    IF Len(a) # Len(b) THEN Len(a) < Len(b)
    ELSE IF a = <<>> THEN TRUE
    ELSE IF a[Len(a)] # b[Len(b)] THEN a[Len(a)] < b[Len(b)]
    ELSE BigLeq(SubSeq(a, 1, Len(a) - 1), SubSeq(b, 1, Len(b) - 1))

BigLess(a, b) == ~BigLeq(b, a)

RECURSIVE BigDigit(_, _, _, _)
\* The largest k in lo..hi with d * k <= r.
BigDigit(r, d, lo, hi) ==
    IF lo = hi THEN lo
    ELSE LET mid == (lo + hi + 1) \div 2
         IN  IF BigLeq(BigNorm(BigMulLimb(d, mid, 0)), r)
             THEN BigDigit(r, d, mid, hi)
             ELSE BigDigit(r, d, lo, mid - 1)

RECURSIVE BigDivMod(_, _)
\* Quotient and remainder of a by d > 0, the high digits first.
BigDivMod(a, d) ==
    IF a = <<>> THEN [q |-> <<>>, r |-> <<>>]
    ELSE LET up == BigDivMod(Tail(a), d)
             r0 == BigNorm(<<a[1]>> \o up.r)
             k == BigDigit(r0, d, 0, Limb - 1)
         IN  [q |-> BigNorm(<<k>> \o up.q),
              r |-> BigSub(r0, BigNorm(BigMulLimb(d, k, 0)))]

BigDiv(a, d) == BigDivMod(a, d).q

\* 2^64 - 1 = 18446744073709551615
U64_MAX == <<1615, 955, 737, 6744, 1844>>

\* 2^128 - 1 = 340282366920938463463374607431768211455
U128_MAX == <<1455, 6821, 4317, 4607, 6337, 4634, 938, 6692, 2823, 340>>

FitsU64(a) == BigLeq(a, U64_MAX)

FitsU128(a) == BigLeq(a, U128_MAX)

\* The status of the Move VM for an overflow, an underflow, a division by
\* zero or a cast that does not fit.
ARITHMETIC_ERROR == 4017

Value(v) == [ok |-> TRUE, v |-> v]

ArithmeticAbort == [ok |-> FALSE, v |-> <<>>]

\* calculate_constant_product_output with its u64 intermediates.
checked_constant_product_output(amount_in, reserve_in, reserve_out, fee_rate) ==
    LET amount_in_with_fee == BigMul(amount_in, BigOf(BpsDenominator - fee_rate))
        numerator == BigMul(amount_in_with_fee, reserve_out)
        scaled_reserve == BigMul(reserve_in, BigOf(BpsDenominator))
        denominator == BigAdd(scaled_reserve, amount_in_with_fee)
    IN  IF \/ fee_rate > BpsDenominator
           \/ ~FitsU64(amount_in_with_fee)
           \/ ~FitsU64(numerator)
           \/ ~FitsU64(scaled_reserve)
           \/ ~FitsU64(denominator)
           \/ denominator = <<>>
        THEN ArithmeticAbort
        ELSE Value(BigDiv(numerator, denominator))

\* calculate_stable_swap_output with its u64 intermediates.
checked_stable_swap_output(amount_in, reserve_in, reserve_out, amplification) ==
    LET scaled_input == BigMul(amount_in, BigOf(StableFeeNumerator))
        fee_adjusted_input == BigDiv(scaled_input, BigOf(BpsDenominator))
        numerator == BigMul(fee_adjusted_input, reserve_out)
        denominator == BigAdd(reserve_in, fee_adjusted_input)
    IN  IF \/ ~FitsU64(scaled_input)
           \/ ~FitsU64(numerator)
           \/ ~FitsU64(denominator)
           \/ denominator = <<>>
        THEN ArithmeticAbort
        ELSE Value(BigDiv(numerator, denominator))

\* The arithmetic swap_exact_input does after its asserts: the two prices,
\* the price impact, the fee and the new input reserve.
SwapBookkeepingFits(amount_in, amount_out, reserve_in, reserve_out, fee_rate) ==
    LET scaled_out == BigMul(reserve_out, BigOf(PriceScale))
        new_reserve_in == BigAdd(reserve_in, amount_in)
        price_before == BigDiv(scaled_out, reserve_in)
        price_after == BigDiv(BigMul(BigSub(reserve_out, amount_out), BigOf(PriceScale)),
                              new_reserve_in)
    IN  /\ reserve_in # <<>>
        /\ FitsU64(scaled_out)
        /\ FitsU64(new_reserve_in)
        /\ BigLess(price_after, price_before) =>
              FitsU64(BigMul(BigSub(price_before, price_after), BigOf(BpsDenominator)))
        /\ FitsU64(BigMul(amount_in, BigOf(fee_rate)))

\* The output swap_exact_input computes for the pool p.
checked_swap_output(amount_in, p) ==
    IF p.is_stable_pool
    THEN checked_stable_swap_output(amount_in, p.reserve_in, p.reserve_out,
                                    p.amplification_coefficient)
    ELSE checked_constant_product_output(amount_in, p.reserve_in,
                                         p.reserve_out, p.swap_fee_rate)

\* swap_exact_input on an unpaused protocol, at the width of its types.
checked_swap_exact_input(amount_in, min_amount_out, p) ==
    LET out == checked_swap_output(amount_in, p)
        failed(code) == [ok |-> FALSE, err |-> code, amount_out |-> <<>>,
                         reserve_in |-> p.reserve_in, reserve_out |-> p.reserve_out]
    IN  IF amount_in = <<>> THEN failed(EInsufficientBalance)
        ELSE IF ~out.ok THEN failed(ARITHMETIC_ERROR)
        ELSE IF out.v = <<>> THEN failed(EInsufficientLiquidity)
        ELSE IF BigLess(out.v, min_amount_out) THEN failed(ESlippageTooHigh)
        ELSE IF ~SwapBookkeepingFits(amount_in, out.v, p.reserve_in, p.reserve_out,
                                     p.swap_fee_rate)
        THEN failed(ARITHMETIC_ERROR)
        ELSE [ok |-> TRUE, err |-> 0, amount_out |-> out.v,
              reserve_in |-> BigAdd(p.reserve_in, amount_in),
              reserve_out |-> BigSub(p.reserve_out, out.v)]

\* Amounts and pools the arithmetic is applied to: pools of 10, 10^9 or
\* 4 * 10^9 units of either token, which create_liquidity_pool can create,
\* and inputs up to the 10^10 units the swap of the test suite sends.
BigAmountsIn == {<<>>, <<1>>, <<1000>>, <<0, 0, 100>>}
BigMinOuts == {<<>>, <<1>>, <<3>>}
BigReserves == {<<10>>, <<0, 0, 10>>, <<0, 0, 40>>}
PurePools ==
    {[reserve_in |-> ri, reserve_out |-> ro, swap_fee_rate |-> InitialTradingFeeRate,
      is_stable_pool |-> st, amplification_coefficient |-> a] :
        ri \in BigReserves, ro \in BigReserves, st \in BOOLEAN, a \in Amplifications}

SwapInputs ==
    {[fn |-> "swap_input", amount_in |-> a, min_amount_out |-> m, pool |-> p] :
        a \in BigAmountsIn, m \in BigMinOuts, p \in PurePools}

ApplySwap ==
    /\ calc.fn = "swap_input"
    /\ calc' = [fn |-> "swap", amount_in |-> calc.amount_in,
                min_amount_out |-> calc.min_amount_out, pool |-> calc.pool,
                output |-> checked_swap_output(calc.amount_in, calc.pool),
                result |-> checked_swap_exact_input(calc.amount_in,
                                                    calc.min_amount_out, calc.pool)]
    /\ UNCHANGED <<ammVars, oracleVars>>

RECURSIVE checked_sqrt_loop(_, _)
\* The loop of sqrt_u128: its test squares the guess in u128.
checked_sqrt_loop(guess, x) ==
    LET square == BigMul(guess, guess)
    IN  IF ~FitsU128(square) THEN ArithmeticAbort
        ELSE IF BigLess(x, square)
        THEN checked_sqrt_loop(BigDiv(BigAdd(guess, BigDiv(x, guess)), BigOf(2)), x)
        ELSE Value(guess)

\* sqrt_u128 at the width of its type.
checked_sqrt_u128(x) ==
    IF x = <<>> THEN Value(<<>>)
    ELSE LET half == BigDiv(x, BigOf(2))
         IN  checked_sqrt_loop(IF half = <<>> THEN <<1>> ELSE half, x)

\* create_liquidity_pool called by the admin on an unpaused protocol, at the
\* width of its types: the fields of the pool are computed in the order of
\* the struct expression.
checked_create_liquidity_pool(amount_a, amount_b) ==
    LET k_constant == BigMul(amount_a, amount_b)
        lp_token_supply == checked_sqrt_u128(k_constant)
        scaled_b == BigMul(amount_b, BigOf(PriceScale))
        failed(code) == [ok |-> FALSE, err |-> code, reserve_a |-> <<>>,
                         reserve_b |-> <<>>, lp_token_supply |-> <<>>]
    IN  IF ~(amount_a # <<>> /\ amount_b # <<>>) THEN failed(EInsufficientLiquidity)
        ELSE IF \/ ~lp_token_supply.ok
                \/ ~FitsU64(lp_token_supply.v)
                \/ ~FitsU64(scaled_b)
                \/ ~FitsU64(k_constant)
        THEN failed(ARITHMETIC_ERROR)
        ELSE [ok |-> TRUE, err |-> 0, reserve_a |-> amount_a, reserve_b |-> amount_b,
              lp_token_supply |-> lp_token_supply.v]

\* Deposits a pool is created from: 0, 10, 10^9, 10^11 (the test suite's)
\* and 2^64 - 1 units.
BigDeposits == {<<>>, <<10>>, <<0, 0, 10>>, <<0, 0, 1000>>, U64_MAX}

PoolInputs ==
    {[fn |-> "pool_input", amount_a |-> a, amount_b |-> b] :
        a \in BigDeposits, b \in BigDeposits}

ApplyCreatePool ==
    /\ calc.fn = "pool_input"
    /\ calc' = [fn |-> "pool", amount_a |-> calc.amount_a, amount_b |-> calc.amount_b,
                result |-> checked_create_liquidity_pool(calc.amount_a, calc.amount_b)]
    /\ UNCHANGED <<ammVars, oracleVars>>

\* The scenario of test_token_swap: the admin creates a constant-product pool
\* from the same deposit of both tokens, then a trader swaps.
ScenarioInputs ==
    {[fn |-> "scenario_input", deposit |-> d, amount_in |-> a, min_amount_out |-> <<1>>] :
        d \in BigDeposits \ {<<>>}, a \in BigAmountsIn}

ApplyPoolThenSwap ==
    /\ calc.fn = "scenario_input"
    /\ LET created == checked_create_liquidity_pool(calc.deposit, calc.deposit)
           p == [reserve_in |-> created.reserve_a, reserve_out |-> created.reserve_b,
                 swap_fee_rate |-> InitialTradingFeeRate, is_stable_pool |-> FALSE,
                 amplification_coefficient |-> 100]
       IN  calc' = [fn |-> "scenario", deposit |-> calc.deposit,
                    amount_in |-> calc.amount_in, pool |-> p,
                    swapped |-> created.ok,
                    result |-> IF created.ok
                               THEN checked_swap_exact_input(calc.amount_in,
                                                             calc.min_amount_out, p)
                               ELSE created]
    /\ UNCHANGED <<ammVars, oracleVars>>

\* Largest of the small arguments sqrt_u128 is applied to one by one.
MaxSmallRoot == 150

\* Arguments of sqrt_u128, all of them products of two 64-bit deposits: every
\* value up to MaxSmallRoot, and 10^18, 2^64 - 1, 2^65 - 1, 2^65, 10^22 (the
\* product of the test suite's deposits) and (2^64 - 1)^2.
SqrtArguments ==
    {BigOf(n) : n \in 0..MaxSmallRoot}
        \cup {<<0, 0, 0, 0, 100>>, U64_MAX,
              BigAdd(BigMul(U64_MAX, BigOf(2)), BigOf(1)),
              BigAdd(BigMul(U64_MAX, BigOf(2)), BigOf(2)),
              <<0, 0, 0, 0, 0, 100>>, BigMul(U64_MAX, U64_MAX)}

SqrtInputs == {[fn |-> "sqrt_input", x |-> x] : x \in SqrtArguments}

ApplySqrt ==
    /\ calc.fn = "sqrt_input"
    /\ calc' = [fn |-> "sqrt", x |-> calc.x, result |-> checked_sqrt_u128(calc.x)]
    /\ UNCHANGED <<ammVars, oracleVars>>

\* Settings update_settings is applied to, and its arguments: the caller is
\* the admin or a reporter, each Option<u64> is none or some value.
SettingsBefore ==
    {[min_sources |-> m, confidence_threshold |-> c, deviation_threshold |-> d,
      stale_threshold |-> StaleThresholdMs, circuit_breaker_enabled |-> TRUE,
      twap_enabled |-> TRUE, volume_weighting_enabled |-> TRUE] :
        m \in {1, MIN_DATA_SOURCES}, c \in {0, MIN_CONFIDENCE_THRESHOLD},
        d \in {500, MAX_PRICE_DEVIATION}}

PureMinSourcesArgs == {None, 0, 2}
PureConfidenceThresholdArgs == {None, 0, 80, 100, 101, 200}
PureDeviationThresholdArgs == {None, 0, 500}

SettingsInputs ==
    {[fn |-> "settings_input", settings |-> s, caller |-> caller, min_sources |-> m,
      confidence_threshold |-> c, deviation_threshold |-> d] :
        s \in SettingsBefore, caller \in AdminCallers, m \in PureMinSourcesArgs,
        c \in PureConfidenceThresholdArgs, d \in PureDeviationThresholdArgs}

\* One update_settings call: an aborted call leaves the settings as they were.
ApplyUpdateSettings ==
    /\ calc.fn = "settings_input"
    /\ LET outcome == update_settings_outcome(calc.caller, calc.min_sources,
                                              calc.confidence_threshold,
                                              calc.deviation_threshold)
       IN  calc' = [fn |-> "settings", before |-> calc.settings, caller |-> calc.caller,
                    min_sources |-> calc.min_sources,
                    confidence_threshold |-> calc.confidence_threshold,
                    deviation_threshold |-> calc.deviation_threshold,
                    outcome |-> outcome,
                    after |-> IF outcome = Succeeds
                              THEN SettingsAfter(calc.settings, calc.min_sources,
                                                 calc.confidence_threshold,
                                                 calc.deviation_threshold)
                              ELSE calc.settings]
    /\ UNCHANGED <<ammVars, oracleVars>>

\* Two LiquidityPool<T, T> objects of the same token type, named by their
\* token_a_reserve: flash_loan borrows from the first, and repay_flash_loan
\* is handed whichever pool the caller chooses, the receipt naming none.
LoanReserves == {1000, 100000}
LoanPools == {"borrowed_from", "other"}

LoanInputs ==
    {[fn |-> "loan_input", reserve_x |-> x, reserve_y |-> y, amount |-> a,
      repaid_into |-> t, delta |-> d] :
        x \in LoanReserves, y \in LoanReserves, a \in {0, 1, 100, 101, 10000},
        t \in LoanPools, d \in RepayDeltas}

\* flash_loan on the first pool, then repay_flash_loan of the receipt into
\* the chosen pool with a coin of amount + fee + delta; either call may abort.
ApplyFlashLoanThenRepay ==
    /\ calc.fn = "loan_input"
    /\ LET borrowed == LoanAllowed(calc.amount, calc.reserve_x)
           receipt == [amount |-> calc.amount, fee |-> FlashLoanFee(calc.amount)]
           repayment == receipt.amount + receipt.fee + calc.delta
           repaid == borrowed /\ repayment >= 0 /\ RepaymentCovers(repayment, receipt)
       IN  calc' = [fn |-> "loan", reserve_x |-> calc.reserve_x,
                    reserve_y |-> calc.reserve_y, receipt |-> receipt,
                    repaid_into |-> calc.repaid_into, repayment |-> repayment,
                    borrowed |-> borrowed, repaid |-> repaid,
                    reserve_x_after |->
                        IF ~repaid THEN calc.reserve_x
                        ELSE IF calc.repaid_into = "borrowed_from"
                        THEN calc.reserve_x - calc.amount + repayment
                        ELSE calc.reserve_x - calc.amount,
                    reserve_y_after |->
                        IF repaid /\ calc.repaid_into = "other"
                        THEN calc.reserve_y + repayment
                        ELSE calc.reserve_y]
    /\ UNCHANGED <<ammVars, oracleVars>>

\* ------------------------------------------------ the simple_defi pool

\* Error codes of module simple_defi.
SimpleEInsufficientBalance == 1001
SimpleEInvalidAmount == 1002

\* swap_x_to_y on a pool p = [balance_x, balance_y, fee_percentage]: the coin
\* of amount_in is joined into balance_x in full, amount_out leaves balance_y.
swap_x_to_y(p, amount_in) ==
    IF ~(amount_in > 0)
    THEN [ok |-> FALSE, err |-> SimpleEInvalidAmount, amount_out |-> 0,
          balance_x |-> p.balance_x, balance_y |-> p.balance_y]
    ELSE IF ~(p.balance_x > 0 /\ p.balance_y > 0)
    THEN [ok |-> FALSE, err |-> SimpleEInsufficientBalance, amount_out |-> 0,
          balance_x |-> p.balance_x, balance_y |-> p.balance_y]
    ELSE LET fee == (amount_in * p.fee_percentage) \div BpsDenominator
             amount_in_after_fee == amount_in - fee
             k == p.balance_x * p.balance_y
             new_x == p.balance_x + amount_in_after_fee
             new_y == k \div new_x
             amount_out == p.balance_y - new_y
         IN  [ok |-> TRUE, err |-> 0, amount_out |-> amount_out,
              balance_x |-> p.balance_x + amount_in,
              balance_y |-> p.balance_y - amount_out]

\* Pools create_pool, add_liquidity and earlier swaps can leave, with fees
\* from 0 to 100%, and the amounts swapped; the products stay far below 2^64.
\* balance_x is 0 only in the empty pool; swaps can take balance_y down to 0.
SimpleBalances == {0, 1, 10, 1000}
SimpleFees == {0, 30, 5000, 10000}
SimpleAmountsIn == {0, 1, 3, 100}

SimplePools ==
    {p \in [balance_x : SimpleBalances, balance_y : SimpleBalances,
            fee_percentage : SimpleFees] : p.balance_x > 0 \/ p.balance_y = 0}

SimpleSwapInputs ==
    {[fn |-> "simple_swap_input", pool |-> p, amount_in |-> a] :
        p \in SimplePools, a \in SimpleAmountsIn}

ApplySimpleSwap ==
    /\ calc.fn = "simple_swap_input"
    /\ calc' = [fn |-> "simple_swap", pool |-> calc.pool, amount_in |-> calc.amount_in,
                result |-> swap_x_to_y(calc.pool, calc.amount_in)]
    /\ UNCHANGED <<ammVars, oracleVars>>

\* --------------------------------------------- the arithmetic of a round

\* Longest list of non-stale submissions a round is applied to.
MaxValid == 3

PurePrices == {100, 101, 150}
PureConfidences == {0, 50, 100}

NoCalc == [fn |-> "none"]

PureSubmissions == [price : PurePrices, confidence : PureConfidences]

\* The lists of non-stale submissions a round may be left with.
ValidLists == UNION {[1..n -> PureSubmissions] : n \in 1..MaxValid}

\* The arithmetic of aggregate_prices on the non-stale submissions `valid`:
\* the weighted price and the average confidence.
ApplyAggregate ==
    /\ calc.fn = "input"
    /\ calc' = [fn |-> "aggregate", valid |-> calc.valid,
                weighted_price |-> WeightedPrice(calc.valid),
                avg_confidence |-> AvgConfidence(TotalWeight(calc.valid), Len(calc.valid))]
    /\ UNCHANGED <<ammVars, oracleVars>>

PureNext ==
    \/ ApplyAggregate
    \/ ApplySwap
    \/ ApplyCreatePool
    \/ ApplyPoolThenSwap
    \/ ApplySqrt
    \/ ApplyUpdateSettings
    \/ ApplyFlashLoanThenRepay
    \/ ApplySimpleSwap

Init == AmmInit /\ OracleInit /\ calc = NoCalc

PureInit ==
    /\ AmmInit /\ OracleInit
    /\ calc \in {[fn |-> "input", valid |-> v] : v \in ValidLists}
                  \cup SwapInputs \cup PoolInputs \cup ScenarioInputs \cup SqrtInputs
                  \cup SettingsInputs \cup LoanInputs \cup SimpleSwapInputs

SpecAMM == Init /\ [][AmmNext]_vars

SpecOracle == Init /\ [][OracleNext]_vars

SpecPure == PureInit /\ [][PureNext]_vars

\* ------------------------------------------ claims on the round arithmetic

RECURSIVE SumProducts(_)
\* The sum of price * confidence over the list `valid`, untruncated.
SumProducts(valid) ==
    IF valid = <<>> THEN 0
    ELSE valid[1].price * valid[1].confidence + SumProducts(Tail(valid))

RECURSIVE SumConfidences(_)
SumConfidences(valid) ==
    IF valid = <<>> THEN 0 ELSE valid[1].confidence + SumConfidences(Tail(valid))

\* C12 (as the specification states it): the aggregated price of a round is
\* floor(floor(sum of price_i * confidence_i / 100) * 100 / sum of
\* confidence_i), the sum being truncated once by the division by 100.
C12_SumTruncatedOnce ==
    (calc.fn = "aggregate" /\ SumConfidences(calc.valid) > 0) =>
        calc.weighted_price =
            ((SumProducts(calc.valid) \div 100) * 100) \div SumConfidences(calc.valid)

OracleAdminOnly ==
    \A caller \in AdminCallers \ {OracleAdmin} :
        /\ add_price_feed_outcome(caller) = Aborts(EOracleNotAuthorized)
        /\ \A node_address \in Reporters :
              authorize_oracle_node_outcome(caller, node_address)
                  = Aborts(EOracleNotAuthorized)
        /\ \A min_sources \in MinSourcesArgs,
              confidence_threshold \in ConfidenceThresholdArgs,
              deviation_threshold \in DeviationThresholdArgs :
              update_settings_outcome(caller, min_sources, confidence_threshold,
                                      deviation_threshold)
                  = Aborts(EOracleNotAuthorized)
        /\ reset_circuit_breaker_outcome(caller) = Aborts(EOracleNotAuthorized)
        /\ set_pause_outcome(caller) = Aborts(EOracleNotAuthorized)

\* The step is an admin call on the protocol made by `caller`.
AdminCallBy(caller) ==
    \/ \E fee_rate \in FeeRates : update_protocol_parameters(caller, fee_rate)
    \/ \E paused \in BOOLEAN : set_protocol_pause(caller, paused)
    \/ \E new_admin \in Callers : transfer_admin(caller, new_admin)
    \/ emergency_pause(caller)
    \/ \E updater \in Updaters : add_oracle_updater(caller, updater)
    \/ \E amount_a \in PoolAmountsA, amount_b \in PoolAmountsB,
          is_stable \in BOOLEAN, amplification \in Amplifications :
          create_liquidity_pool(caller, amount_a, amount_b, is_stable, amplification)

AdminOps ==
    {"update_protocol_parameters", "set_protocol_pause", "transfer_admin",
     "emergency_pause", "add_oracle_updater", "create_liquidity_pool"}

\* C18: only the current admin performs an admin operation. On the oracle,
\* add_price_feed, authorize_oracle_node, update_settings,
\* reset_circuit_breaker and set_pause abort with ENotAuthorized for every
\* other caller. On the protocol, update_protocol_parameters,
\* set_protocol_pause, transfer_admin, emergency_pause, add_oracle_updater and
\* create_liquidity_pool by a caller other than the admin of the moment fail
\* with ENotAuthorized and leave the protocol, the pool and the profiles as
\* they were, the admin of before a transfer_admin included; an admin
\* operation that succeeded was called by the admin.
C18_AdminOnly ==
    /\ [](OracleAdminOnly)
    /\ [][ /\ \A caller \in Callers :
                (caller # protocol.admin /\ AdminCallBy(caller)) =>
                    /\ ~last'.ok /\ last'.err = ENotAuthorized
                    /\ protocol' = protocol /\ pool' = pool /\ profiles' = profiles
           /\ (last'.op \in AdminOps /\ last'.ok /\ nOps' = nOps + 1) =>
                AdminCallBy(protocol.admin) ]_vars

\* After the admin rights went to the trader, a call of
\* update_protocol_parameters was refused: it came from the admin of before.
C18_Witness ==
    /\ protocol.admin = "trader"
    /\ last.op = "update_protocol_parameters"
    /\ ~last.ok /\ last.err = ENotAuthorized

\* The new admin has used the rights: it paused the protocol.
C18_WitnessNewAdmin ==
    /\ protocol.admin = "trader"
    /\ last.op = "emergency_pause" /\ last.ok
    /\ protocol.is_paused

\* C19: while the aggregator is paused every submit_price call aborts, and no
\* step taken while it is paused is an accepted submission or changes the
\* buffer, the rounds or the submission counts of the reporters.
C19_PausedRefusesSubmissions ==
    /\ [](is_paused =>
            \A submitter \in Reporters, price \in Prices, confidence \in Confidences :
                ~submit_price_outcome(submitter, price, confidence).ok)
    /\ [][is_paused =>
            /\ ~SubmitStep
            /\ feed'.price_sources = feed.price_sources
            /\ rounds' = rounds
            /\ \A r \in Reporters :
                  oracle_nodes'[r].total_submissions = oracle_nodes[r].total_submissions
         ]_vars

\* The aggregator is paused with a submission in the buffer, and a second
\* authorized reporter, who is not in the buffer, is refused for the pause.
C19_Witness ==
    /\ is_paused /\ feed.exists /\ feed.price_sources # <<>>
    /\ \E r \in Reporters :
          /\ oracle_nodes[r].exists /\ oracle_nodes[r].is_authorized
          /\ ~InBuffer(feed.price_sources, r)
          /\ PassesBreaker(100)
          /\ submit_price_outcome(r, 100, 100) = Aborts(EOracleNotAuthorized)

\* C20 (as the specification states it): a round that published has appended
\* a bucket with the published price to the history of the pair, and the
\* TWAP of the feed, which get_twap returns, is the truncated mean of the
\* last min(24, length) buckets.
C20_PublishedRoundUpdatesTwap ==
    (olast.op = "submit_price" /\ olast.round = "published") =>
        /\ Len(history.hourly_prices) >= 1
        /\ history.hourly_prices[Len(history.hourly_prices)].weighted_price
               = olast.aggregate
        /\ feed.twap_24h = calculate_twap(history.hourly_prices, 24)
        /\ get_twap = feed.twap_24h

\* What the code does: aggregate_prices never calls update_twap, so the
\* history stays empty and get_twap returns 0 after every round.
C20_TwapNeverUpdated ==
    /\ history.hourly_prices = <<>>
    /\ feed.twap_24h = 0
    /\ get_twap = 0

\* A round has published a price above 0 and get_twap still returns 0.
C20_WitnessPublished ==
    /\ olast.op = "submit_price" /\ olast.round = "published"
    /\ feed.current_price > 0
    /\ get_twap = 0

\* The output the formulas give for the swap in `calc`, without a bound on
\* the intermediate values.
ExactSwapOutput ==
    IF calc.pool.is_stable_pool
    THEN LET fee_adjusted_input ==
                 BigDiv(BigMul(calc.amount_in, BigOf(StableFeeNumerator)),
                        BigOf(BpsDenominator))
         IN  BigDiv(BigMul(fee_adjusted_input, calc.pool.reserve_out),
                    BigAdd(calc.pool.reserve_in, fee_adjusted_input))
    ELSE LET amount_in_with_fee ==
                 BigMul(calc.amount_in, BigOf(BpsDenominator - calc.pool.swap_fee_rate))
         IN  BigDiv(BigMul(amount_in_with_fee, calc.pool.reserve_out),
                    BigAdd(BigMul(calc.pool.reserve_in, BigOf(BpsDenominator)),
                           amount_in_with_fee))

\* C21 (as the specification states it): on an unpaused protocol
\* swap_exact_input fails with EInsufficientBalance when the input is 0,
\* with EInsufficientLiquidity when the computed output is 0, with
\* ESlippageTooHigh when the output is below the minimum asked for, leaving
\* the reserves as they were, and succeeds in every other case.
C21_SwapFailsOnlyAsStated ==
    calc.fn = "swap" =>
        LET res == calc.result
        IN  IF calc.amount_in = <<>>
            THEN ~res.ok /\ res.err = EInsufficientBalance
            ELSE IF ExactSwapOutput = <<>>
            THEN ~res.ok /\ res.err = EInsufficientLiquidity
            ELSE IF BigLess(ExactSwapOutput, calc.min_amount_out)
            THEN ~res.ok /\ res.err = ESlippageTooHigh
            ELSE res.ok

\* What the code does: the three failures are as stated and leave the
\* reserves alone, and the call also aborts, by arithmetic overflow, in cases
\* where the output would be positive and above the minimum.
C21_SwapFailsAlsoByOverflow ==
    calc.fn = "swap" =>
        LET res == calc.result
        IN  /\ ~res.ok =>
                  /\ res.reserve_in = calc.pool.reserve_in
                  /\ res.reserve_out = calc.pool.reserve_out
                  /\ res.err \in {EInsufficientBalance, EInsufficientLiquidity,
                                  ESlippageTooHigh, ARITHMETIC_ERROR}
            /\ calc.amount_in = <<>> => ~res.ok /\ res.err = EInsufficientBalance
            /\ (~res.ok /\ res.err = EInsufficientLiquidity) => ExactSwapOutput = <<>>
            /\ (~res.ok /\ res.err = ESlippageTooHigh) =>
                  BigLess(ExactSwapOutput, calc.min_amount_out)
            /\ res.ok => res.amount_out = ExactSwapOutput

\* 10^10 units sent into a constant-product pool of 10^9 units a side: the
\* output would be positive, and the call aborts by overflow.
C21_WitnessOverflow ==
    /\ calc.fn = "swap"
    /\ calc.amount_in = <<0, 0, 100>>
    /\ calc.pool.reserve_in = <<0, 0, 10>> /\ ~calc.pool.is_stable_pool
    /\ ExactSwapOutput # <<>>
    /\ ~calc.result.ok /\ calc.result.err = ARITHMETIC_ERROR

\* A swap that succeeded added exactly the input to the input reserve and
\* took exactly the computed output, which is positive, from the other.
SwapMovesReserves(before, amount_in, res) ==
    res.ok =>
        /\ res.reserve_in = BigAdd(before.reserve_in, amount_in)
        /\ BigAdd(res.reserve_out, res.amount_out) = before.reserve_out
        /\ BigLess(before.reserve_in, res.reserve_in)
        /\ BigLess(res.reserve_out, before.reserve_out)

\* The scenario of the test suite: 10^11 units a side, 10^10 units swapped.
TestScenario ==
    /\ calc.deposit = <<0, 0, 1000>>
    /\ calc.amount_in = <<0, 0, 100>>

\* C22 (as the specification states it): a successful swap_exact_input
\* increases the input reserve by exactly the input and decreases the output
\* reserve by exactly the computed output, and in the scenario of the test
\* suite, a pool of 10^11 units a side and an input of 10^10 units, the swap
\* succeeds.
C22_TestSwapMovesReserves ==
    /\ calc.fn = "swap" => SwapMovesReserves(calc.pool, calc.amount_in, calc.result)
    /\ calc.fn = "scenario" =>
          /\ calc.swapped => SwapMovesReserves(calc.pool, calc.amount_in, calc.result)
          /\ TestScenario => (calc.swapped /\ calc.result.ok)

\* What the code does: the swaps that succeed move the reserves as stated,
\* and the scenario of the test suite aborts by overflow before any swap.
C22_TestScenarioOverflows ==
    /\ calc.fn = "swap" => SwapMovesReserves(calc.pool, calc.amount_in, calc.result)
    /\ calc.fn = "scenario" =>
          /\ calc.swapped => SwapMovesReserves(calc.pool, calc.amount_in, calc.result)
          /\ TestScenario =>
                (~calc.swapped /\ ~calc.result.ok /\ calc.result.err = ARITHMETIC_ERROR)

C22_WitnessTestScenario == calc.fn = "scenario" /\ TestScenario

\* A scenario that goes through: 1000 units swapped into a pool of 10^9 units
\* a side.
C22_WitnessSwapped ==
    /\ calc.fn = "scenario" /\ calc.swapped /\ calc.result.ok
    /\ calc.deposit = <<0, 0, 10>>
    /\ calc.amount_in = <<1000>>

\* C23 (as the specification states it): create_liquidity_pool by the admin
\* on an unpaused protocol fails when a deposit is 0 and, for every pair of
\* positive 64-bit deposits, creates the pool with those reserves.
C23_PoolCreatedIffPositive ==
    calc.fn = "pool" =>
        IF calc.amount_a = <<>> \/ calc.amount_b = <<>>
        THEN ~calc.result.ok /\ calc.result.err = EInsufficientLiquidity
        ELSE /\ calc.result.ok
             /\ calc.result.reserve_a = calc.amount_a
             /\ calc.result.reserve_b = calc.amount_b

\* What the code does: with positive deposits the pool is created exactly
\* when amount_a * amount_b and amount_b * 1_000_000 both fit 64 bits.
C23_PoolCreatedIffProductFits ==
    calc.fn = "pool" =>
        IF calc.amount_a = <<>> \/ calc.amount_b = <<>>
        THEN ~calc.result.ok /\ calc.result.err = EInsufficientLiquidity
        ELSE IF /\ FitsU64(BigMul(calc.amount_a, calc.amount_b))
                /\ FitsU64(BigMul(calc.amount_b, BigOf(PriceScale)))
        THEN /\ calc.result.ok
             /\ calc.result.reserve_a = calc.amount_a
             /\ calc.result.reserve_b = calc.amount_b
        ELSE ~calc.result.ok /\ calc.result.err = ARITHMETIC_ERROR

\* The pool of the test suite, 10^11 units of each token, is not created.
C23_WitnessTestPool ==
    /\ calc.fn = "pool"
    /\ calc.amount_a = <<0, 0, 1000>> /\ calc.amount_b = <<0, 0, 1000>>
    /\ ~calc.result.ok /\ calc.result.err = ARITHMETIC_ERROR

\* A pool of 10^9 units of each token is created.
C23_WitnessCreated ==
    /\ calc.fn = "pool" /\ calc.result.ok
    /\ calc.amount_a = <<0, 0, 10>> /\ calc.amount_b = <<0, 0, 10>>
    /\ calc.result.lp_token_supply = <<0, 0, 10>>

\* r is the integer square root of x: r * r <= x < (r + 1) * (r + 1).
IsFloorSqrt(r, x) ==
    /\ BigLeq(BigMul(r, r), x)
    /\ BigLess(x, BigMul(BigAdd(r, <<1>>), BigAdd(r, <<1>>)))

\* C24 (as the specification states it): sqrt_u128(x) returns, for every x,
\* the r with r * r <= x < (r + 1) * (r + 1), and that is the lp_token_supply
\* of a pool created from deposits whose product is x.
C24_SqrtIsFloorRoot ==
    /\ calc.fn = "sqrt" => (calc.result.ok /\ IsFloorSqrt(calc.result.v, calc.x))
    /\ (calc.fn = "pool" /\ calc.result.ok) =>
          IsFloorSqrt(calc.result.lp_token_supply, BigMul(calc.amount_a, calc.amount_b))

\* 2^65
SqrtAbortsFrom == BigAdd(BigMul(U64_MAX, BigOf(2)), BigOf(2))

\* What the code does: sqrt_u128 returns the integer square root of every x
\* below 2^65 and aborts by overflow for every x from 2^65 on; a pool that
\* was created has the integer square root of the product as its supply.
C24_SqrtAbortsFromTwoTo65 ==
    /\ calc.fn = "sqrt" =>
          IF BigLess(calc.x, SqrtAbortsFrom)
          THEN calc.result.ok /\ IsFloorSqrt(calc.result.v, calc.x)
          ELSE ~calc.result.ok
    /\ (calc.fn = "pool" /\ calc.result.ok) =>
          IsFloorSqrt(calc.result.lp_token_supply, BigMul(calc.amount_a, calc.amount_b))

\* sqrt_u128 of 10^22, the product of the deposits of the test suite, aborts.
C24_WitnessTestProduct ==
    /\ calc.fn = "sqrt"
    /\ calc.x = <<0, 0, 0, 0, 0, 100>>
    /\ ~calc.result.ok

\* sqrt_u128 of 2^64 - 1 returns 2^32 - 1 = 4294967295.
C24_WitnessLargestFitting ==
    /\ calc.fn = "sqrt"
    /\ calc.x = U64_MAX
    /\ calc.result = Value(<<7295, 9496, 42>>)

\* floor(amount_in * 0.997 * reserve_out / (reserve_in + amount_in * 0.997)),
\* numerator and denominator multiplied by 10000 and truncated once.
StableOutputTruncatedOnce(amount_in, reserve_in, reserve_out) ==
    BigDiv(BigMul(BigMul(amount_in, BigOf(StableFeeNumerator)), reserve_out),
           BigAdd(BigMul(reserve_in, BigOf(BpsDenominator)),
                  BigMul(amount_in, BigOf(StableFeeNumerator))))

\* Amplification parameters the stable formula is compared over.
PureAmplifications == {1, 100, 1000}

\* The output of a stable pool does not depend on the amplification.
AmplificationIgnored ==
    \A amplification \in PureAmplifications :
        checked_stable_swap_output(calc.amount_in, calc.pool.reserve_in,
                                   calc.pool.reserve_out, amplification)
            = calc.output

\* C27 (as the specification states it): for a stable pool the output of a
\* swap is floor(amount_in * 0.997 * reserve_out / (reserve_in + amount_in *
\* 0.997)), whatever the amplification of the pool.
C27_StableOutputAsStated ==
    (calc.fn = "swap" /\ calc.pool.is_stable_pool) =>
        /\ AmplificationIgnored
        /\ calc.output.ok
        /\ calc.output.v = StableOutputTruncatedOnce(calc.amount_in, calc.pool.reserve_in,
                                                     calc.pool.reserve_out)

\* What the code does: amount_in * 0.997 is truncated to an integer before
\* it is used, the amplification is ignored, and the products are formed in
\* 64 bits.
C27_StableOutputTruncatesInput ==
    (calc.fn = "swap" /\ calc.pool.is_stable_pool) =>
        /\ AmplificationIgnored
        /\ calc.output.ok =>
              LET fee_adjusted_input ==
                      BigDiv(BigMul(calc.amount_in, BigOf(StableFeeNumerator)),
                             BigOf(BpsDenominator))
              IN  calc.output.v = BigDiv(BigMul(fee_adjusted_input, calc.pool.reserve_out),
                                         BigAdd(calc.pool.reserve_in, fee_adjusted_input))

\* One unit sent into a stable pool of 10 against 10^9 units: the stated
\* formula gives 90_661_089 units, the code computes 0.
C27_WitnessInputTruncated ==
    /\ calc.fn = "swap" /\ calc.pool.is_stable_pool
    /\ calc.amount_in = <<1>>
    /\ calc.pool.reserve_in = <<10>> /\ calc.pool.reserve_out = <<0, 0, 10>>
    /\ calc.output = Value(<<>>)
    /\ StableOutputTruncatedOnce(calc.amount_in, calc.pool.reserve_in,
                                 calc.pool.reserve_out) = <<1089, 9066>>

\* A setting after the call: the supplied value, or the value it had.
SettingFollows(option, before, after) ==
    /\ option = None => after = before
    /\ option # None => after = option

\* C28: a successful update_settings call changes exactly the settings that
\* were supplied and leaves every other setting as it was; a call by the
\* admin whose confidence threshold exceeds 100 aborts with
\* EInvalidConfidence and persists nothing, not even a min_sources or a
\* deviation threshold supplied in the same call.
C28_ExactlySuppliedSettingsChange ==
    calc.fn = "settings" =>
        /\ calc.outcome = Succeeds =>
              /\ SettingFollows(calc.min_sources, calc.before.min_sources,
                                calc.after.min_sources)
              /\ SettingFollows(calc.confidence_threshold,
                                calc.before.confidence_threshold,
                                calc.after.confidence_threshold)
              /\ SettingFollows(calc.deviation_threshold,
                                calc.before.deviation_threshold,
                                calc.after.deviation_threshold)
              /\ calc.after.stale_threshold = calc.before.stale_threshold
              /\ calc.after.circuit_breaker_enabled = calc.before.circuit_breaker_enabled
              /\ calc.after.twap_enabled = calc.before.twap_enabled
              /\ calc.after.volume_weighting_enabled
                    = calc.before.volume_weighting_enabled
        /\ (calc.caller = OracleAdmin /\ calc.confidence_threshold # None
                /\ calc.confidence_threshold > MaxConfidence) =>
              /\ calc.outcome = Aborts(EInvalidConfidence)
              /\ calc.after = calc.before
        /\ (calc.caller = OracleAdmin
                /\ (calc.confidence_threshold = None
                        \/ calc.confidence_threshold <= MaxConfidence)) =>
              calc.outcome = Succeeds

\* The admin supplies a new min_sources and a new confidence threshold and no
\* deviation threshold: the two change, the third stays.
C28_Witness ==
    /\ calc.fn = "settings" /\ calc.outcome = Succeeds
    /\ calc.min_sources = 2 /\ calc.confidence_threshold = 80
    /\ calc.deviation_threshold = None
    /\ calc.before.min_sources = MIN_DATA_SOURCES
    /\ calc.before.confidence_threshold = MIN_CONFIDENCE_THRESHOLD
    /\ calc.after.min_sources = 2 /\ calc.after.confidence_threshold = 80
    /\ calc.after.deviation_threshold = calc.before.deviation_threshold

\* The admin supplies a confidence threshold of 101 together with a new
\* min_sources and a new deviation threshold: nothing is stored.
C28_WitnessRejected ==
    /\ calc.fn = "settings" /\ calc.outcome = Aborts(EInvalidConfidence)
    /\ calc.confidence_threshold = 101
    /\ calc.min_sources = 2 /\ calc.min_sources # calc.before.min_sources
    /\ calc.deviation_threshold = 0
    /\ calc.after = calc.before

\* C29: reset_circuit_breaker(pair) by the admin leaves the breaker of a known
\* pair not triggered with no consecutive anomalies, from whatever state the
\* breaker is in, and keeps its trigger price, trigger time, reset threshold
\* and last normal price; for a pair that was never added the breaker is as
\* it was. The call changes neither the feed with its buffer, nor the
\* history, the settings, the nodes or the pause flag.
C29_ResetClearsOnlyTheBreaker ==
    /\ [](\A pair \in PairArgs :
            LET after == BreakerAfterReset(pair)
            IN  IF feed.exists /\ pair = FeedPair
                THEN /\ ~after.is_triggered
                     /\ after.consecutive_anomalies = 0
                     /\ after.trigger_price = breaker.trigger_price
                     /\ after.trigger_timestamp = breaker.trigger_timestamp
                     /\ after.reset_threshold = breaker.reset_threshold
                     /\ after.last_normal_price = breaker.last_normal_price
                ELSE after = breaker)
    /\ [][\A pair \in PairArgs :
            reset_circuit_breaker(OracleAdmin, pair) =>
                /\ pair = FeedPair =>
                      /\ ~breaker'.is_triggered
                      /\ breaker'.consecutive_anomalies = 0
                      /\ breaker'.trigger_price = breaker.trigger_price
                      /\ breaker'.last_normal_price = breaker.last_normal_price
                /\ pair # FeedPair => breaker' = breaker
                /\ UNCHANGED <<feed, history, settings, oracle_nodes, is_paused, clock>>
       ]_vars

\* The admin has reset a breaker that a round had tripped: the trigger price
\* of the round is still recorded.
C29_Witness ==
    /\ olast.op = "reset_circuit_breaker" /\ olast.pair = FeedPair
    /\ ~breaker.is_triggered /\ breaker.consecutive_anomalies = 0
    /\ breaker.trigger_price > 0
    /\ feed.current_price > 0

\* The admin has reset the breaker of a pair that was never added: the
\* breaker of the known pair is still triggered.
C29_WitnessUnknownPair ==
    /\ olast.op = "reset_circuit_breaker" /\ olast.pair # FeedPair
    /\ breaker.is_triggered /\ breaker.consecutive_anomalies > 0

\* The conditions the specification gives for a healthy pair, over integers.
HealthyAsStated(pair, now) ==
    /\ feed.exists /\ pair = FeedPair
    /\ now - feed.last_update <= settings.stale_threshold
    /\ feed.confidence >= settings.confidence_threshold
    /\ ~breaker.is_triggered

\* get_price of a pair that was never added returns zeros and no breaker.
UnknownPairSentinel ==
    \A pair \in PairArgs :
        ~(feed.exists /\ pair = FeedPair) =>
            get_price(pair) = [price |-> 0, confidence |-> 0, source_count |-> 0,
                               deviation |-> 0, timestamp |-> 0,
                               is_circuit_breaker_active |-> FALSE]

\* C30 (as the specification states it): is_oracle_healthy(pair, now) returns
\* true exactly when the pair exists, now - last_update <= stale_threshold,
\* confidence >= confidence_threshold and the breaker is not triggered, for
\* every pair and every time asked about; get_price of an unknown pair
\* returns the all-zero sentinel.
C30_HealthyExactlyAsStated ==
    /\ UnknownPairSentinel
    /\ \A pair \in PairArgs, now \in TimeArgs :
          LET answer == is_oracle_healthy(pair, now)
          IN  answer.ok /\ (answer.healthy <=> HealthyAsStated(pair, now))

\* What the code does: the answer is as stated for every time that is not
\* before the last update of the pair; for an earlier time the call aborts.
C30_HealthyFromLastUpdateOn ==
    /\ UnknownPairSentinel
    /\ \A pair \in PairArgs, now \in TimeArgs :
          LET answer == is_oracle_healthy(pair, now)
          IN  IF feed.exists /\ pair = FeedPair /\ now < feed.last_update
              THEN ~answer.ok
              ELSE answer.ok /\ (answer.healthy <=> HealthyAsStated(pair, now))

\* A price was published after the clock had advanced, with full confidence
\* and no breaker: asked about time 0 the call aborts, asked about the
\* clock's time it answers true, asked two steps later it answers false.
C30_WitnessEarlierTime ==
    /\ feed.exists /\ feed.last_update > 0 /\ feed.current_price > 0
    /\ ~breaker.is_triggered
    /\ HealthyAsStated(FeedPair, 0)
    /\ ~is_oracle_healthy(FeedPair, 0).ok
    /\ is_oracle_healthy(FeedPair, feed.last_update).healthy
    /\ ~is_oracle_healthy(FeedPair, feed.last_update + 2 * TickMs).healthy

\* C31 (as the specification states it): a failed call emits nothing; a
\* successful swap_exact_input or batch_swaps call emits one swap event for
\* each executed leg, every executed leg taking a positive input into the
\* reserves; a successful add_liquidity emits exactly one LiquidityAdded.
C31_OneEventPerTransition ==
    /\ ~last.ok => last.events = <<>>
    /\ (last.ok /\ last.op \in {"swap_exact_input", "batch_swaps"}) =>
          /\ \A i \in 1..Len(last.legs) : last.legs[i].amount_in > 0
          /\ last.events = [i \in 1..Len(last.legs) |-> "TokenSwapped"]
    /\ (last.ok /\ last.op = "add_liquidity") => last.events = <<"LiquidityAdded">>

\* What the code does: batch_swaps emits no event, whatever it executes.
C31_BatchSwapsEmitNothing ==
    /\ ~last.ok => last.events = <<>>
    /\ (last.ok /\ last.op = "swap_exact_input") => last.events = <<"TokenSwapped">>
    /\ (last.ok /\ last.op = "batch_swaps") => last.events = <<>>
    /\ (last.ok /\ last.op = "add_liquidity") => last.events = <<"LiquidityAdded">>

\* A batch executed a leg, so the reserves moved, and no event was emitted.
C31_WitnessSilentBatch ==
    /\ last.ok /\ last.op = "batch_swaps"
    /\ Len(last.legs) > 0 /\ last.legs[1].amount_out > 0
    /\ pool.token_a_reserve > last.legs[1].reserve_in
    /\ last.events = <<>>

\* Every completed round emits exactly one event: PriceUpdated when it
\* published, CircuitBreakerTriggered when it tripped; a submission that
\* completes no round emits none.
C31_OneEventPerRound ==
    olast.op = "submit_price" =>
        /\ olast.round = "published" => olast.events = <<"PriceUpdated">>
        /\ olast.round = "tripped" => olast.events = <<"CircuitBreakerTriggered">>
        /\ olast.round = "none" => olast.events = <<>>
        /\ olast.round \in {"published", "tripped", "none"}

C32_FailedAmmCallRollsBack ==
    [][(~last'.ok /\ last'.op \in {"swap_exact_input", "add_liquidity"}) =>
            /\ pool' = Base.pool
            /\ protocol' = Base.protocol
            /\ profiles' = Base.profiles
            /\ ~inTx => UNCHANGED <<pool, protocol, profiles>>
      ]_vars

\* The reporters that are registered and authorized.
AuthorizedReporters == {r \in Reporters : oracle_nodes[r].exists /\ oracle_nodes[r].is_authorized}

\* The states C33 speaks of: the pair exists, the aggregator is not paused,
\* the breaker is not triggered and min_sources authorized reporters exist.
ReadyToPublish ==
    /\ feed.exists /\ ~is_paused /\ ~breaker.is_triggered
    /\ Cardinality(AuthorizedReporters) >= settings.min_sources

\* C33 (as the specification states it): whatever the buffer holds, when
\* min_sources authorized reporters submit prices within the trip threshold
\* at the current time each of the calls succeeds; so the call of whichever
\* of them submits first succeeds, and it publishes when min_sources is 1.
C33_FreshSubmissionsAlwaysAccepted ==
    ReadyToPublish =>
        \A submitter \in AuthorizedReporters, price \in Prices :
            ~TripsBreaker(price, feed.current_price, settings.circuit_breaker_enabled) =>
                /\ submit_price_outcome(submitter, price, MaxConfidence) = Succeeds
                /\ settings.min_sources = 1 =>
                      AfterSubmitPrice(submitter, price, MaxConfidence).feed.last_update
                          = clock

\* What the code does: with stale submissions in the buffer, one short of
\* min_sources, no submission of any authorized reporter is accepted: a
\* reporter in the buffer aborts on the duplicate key, any other one makes
\* the buffer reach min_sources entries with too few of them fresh.
C33_WitnessBlocked ==
    /\ ReadyToPublish
    /\ Len(feed.price_sources) > 0
    /\ \A i \in 1..Len(feed.price_sources) :
          ~NotStale(feed.price_sources[i], clock, settings.stale_threshold)
    /\ \A submitter \in AuthorizedReporters, price \in Prices :
          submit_price_outcome(submitter, price, MaxConfidence)
              \in {Aborts(EKeyAlreadyExists), Aborts(EInsufficientDataSources)}
    /\ \E submitter \in AuthorizedReporters :
          submit_price_outcome(submitter, 100, MaxConfidence)
              = Aborts(EInsufficientDataSources)

\* C34 (as the specification states it): once a flash_loan from a pool and
\* the repay_flash_loan that consumes its receipt have both completed, the
\* reserve of that pool is at least its reserve before the borrow plus the
\* fee, also when another pool of the same token type exists.
C34_LendingPoolMadeWhole ==
    (calc.fn = "loan" /\ calc.borrowed /\ calc.repaid) =>
        calc.reserve_x_after >= calc.reserve_x + calc.receipt.fee

\* What the code does: the two pools together hold at least what they held
\* plus the fee, and the lending pool does when the repayment went into it.
C34_RepaymentReachesSomePool ==
    (calc.fn = "loan" /\ calc.borrowed /\ calc.repaid) =>
        /\ calc.reserve_x_after + calc.reserve_y_after
              >= calc.reserve_x + calc.reserve_y + calc.receipt.fee
        /\ calc.repaid_into = "borrowed_from" =>
              calc.reserve_x_after >= calc.reserve_x + calc.receipt.fee

\* 10000 units borrowed from a pool of 100000 and repaid, with the fee of 9,
\* into the other pool: the lending pool is left with 90000.
C34_WitnessRepaidElsewhere ==
    /\ calc.fn = "loan" /\ calc.borrowed /\ calc.repaid
    /\ calc.repaid_into = "other"
    /\ calc.reserve_x = 100000 /\ calc.receipt = [amount |-> 10000, fee |-> 9]
    /\ calc.repayment = 10009
    /\ calc.reserve_x_after = 90000
    /\ calc.reserve_y_after = calc.reserve_y + 10009

\* C35 (as the specification states it): when a submit_price call returns
\* from a round that tripped the breaker, the buffer of the pair is empty.
C35_BufferEmptyAfterTrip ==
    (olast.op = "submit_price" /\ olast.round = "tripped")
        => feed.price_sources = <<>>

\* What the code does: the round that trips returns before the buffer is
\* cleared, so the buffer holds every submission the call saw, the one that
\* completed the round included.
C35_BufferKeptAfterTrip ==
    (olast.op = "submit_price" /\ olast.round = "tripped")
        => /\ feed.price_sources = olast.buffer
           /\ InBuffer(feed.price_sources, olast.submission.source)
           /\ Len(feed.price_sources) >= settings.min_sources

\* A round has tripped the breaker and the submissions it aggregated are
\* still in the buffer.
C35_WitnessKept ==
    /\ olast.op = "submit_price" /\ olast.round = "tripped"
    /\ breaker.is_triggered
    /\ Len(olast.used) > 0
    /\ \A i \in 1..Len(olast.used) :
          InBuffer(feed.price_sources, olast.used[i].source)

\* The prices of the submissions a round used.
PricesUsed(valid) == {valid[i].price : i \in 1..Len(valid)}

\* C36 (as the specification states it): when the total confidence of the
\* submissions a round used is positive, the price the round computes, which
\* is the price it publishes, is at least the lowest and at most the highest
\* of their prices.
C36_AggregateWithinSubmittedPrices ==
    (calc.fn = "aggregate" /\ SumConfidences(calc.valid) > 0) =>
        /\ \E price \in PricesUsed(calc.valid) : price <= calc.weighted_price
        /\ \E price \in PricesUsed(calc.valid) : calc.weighted_price <= price

\* What the code does: the price is never above the highest submitted price,
\* and with every confidence at 100 it is never below the lowest.
C36_AggregateAtMostHighest ==
    (calc.fn = "aggregate" /\ SumConfidences(calc.valid) > 0) =>
        /\ \E price \in PricesUsed(calc.valid) : calc.weighted_price <= price
        /\ (\A i \in 1..Len(calc.valid) : calc.valid[i].confidence = 100) =>
              \E price \in PricesUsed(calc.valid) : price <= calc.weighted_price

\* A single submission of 101 with confidence 50: floor(101 * 50 / 100) = 50,
\* and 50 * 100 / 50 = 100 is computed, below the only price submitted.
C36_WitnessBelowLowest ==
    /\ calc.fn = "aggregate"
    /\ calc.valid = <<[price |-> 101, confidence |-> 50]>>
    /\ calc.weighted_price = 100

\* C37 (as the specification states it): across a successful swap_x_to_y
\* the product balance_x * balance_y does not decrease.
C37_SimpleProductNeverDecreases ==
    (calc.fn = "simple_swap" /\ calc.result.ok) =>
        calc.result.balance_x * calc.result.balance_y
            >= calc.pool.balance_x * calc.pool.balance_y

\* What the code does: balance_y becomes floor(k / new_x), rounded in favour
\* of the trader, so the product may fall, by less than the new balance_x;
\* balance_y never grows and never reaches below 0.
C37_SimpleProductFallsByLessThanX ==
    (calc.fn = "simple_swap" /\ calc.result.ok) =>
        /\ calc.result.balance_x = calc.pool.balance_x + calc.amount_in
        /\ calc.result.balance_y \in 0..calc.pool.balance_y
        /\ calc.result.balance_x * calc.result.balance_y
              > calc.pool.balance_x * calc.pool.balance_y - calc.result.balance_x

\* A pool of 10 and 10 with no fee takes 1 unit: new_y = floor(100 / 11) = 9,
\* one unit is paid out and the product goes from 100 to 99.
C37_WitnessProductFell ==
    /\ calc.fn = "simple_swap" /\ calc.result.ok
    /\ calc.pool = [balance_x |-> 10, balance_y |-> 10, fee_percentage |-> 0]
    /\ calc.amount_in = 1
    /\ calc.result.amount_out = 1
    /\ calc.result.balance_x * calc.result.balance_y = 99

\* C38 (as the specification states it): while the protocol is paused no
\* call changes the reserves or the LP supply of the pool.
C38_PausedPoolUntouched ==
    [][protocol.is_paused =>
            /\ pool'.token_a_reserve = pool.token_a_reserve
            /\ pool'.token_b_reserve = pool.token_b_reserve
            /\ pool'.lp_token_supply = pool.lp_token_supply
      ]_vars

\* What the code does: flash_loan and repay_flash_loan read no pause flag, so
\* while the protocol is paused they, and the rollback of a transaction that
\* had borrowed, are the only steps that change the pool.
C38_PausedPoolMovedOnlyByLoans ==
    [][(protocol.is_paused /\ pool' # pool) =>
            \/ last'.ok /\ last'.op \in {"flash_loan", "repay_flash_loan"}
            \/ ~last'.ok /\ inTx
      ]_vars

\* The protocol is paused and a transaction has borrowed and repaid with the
\* fee: the reserve of the pool is above what it was when the pause began.
C38_WitnessLoanWhilePaused ==
    /\ protocol.is_paused
    /\ last.ok /\ last.op = "repay_flash_loan"
    /\ inTx /\ txStart.protocol.is_paused
    /\ pool.token_a_reserve > txStart.pool.token_a_reserve

\* The settings the admin can reach from the current ones by one successful
\* update_settings call.
SettingsAdminCanSet ==
    {SettingsAfter(settings, min_sources, confidence_threshold, deviation_threshold) :
        min_sources \in PureMinSourcesArgs,
        confidence_threshold \in {c \in PureConfidenceThresholdArgs :
            update_settings_outcome(OracleAdmin, None, c, None) = Succeeds},
        deviation_threshold \in PureDeviationThresholdArgs}

\* C39 (as the specification states it): a pair whose current_price is 0, no
\* round having published, is not reported healthy, at any time asked about
\* and under any settings the admin can set.
C39_UnpublishedPairNeverHealthy ==
    (feed.exists /\ feed.current_price = 0) =>
        \A s \in SettingsAdminCanSet \cup {settings}, now \in TimeArgs :
            ~HealthyUnder(s, FeedPair, now).healthy

\* What the code does: the pair is not reported healthy while the confidence
\* threshold is above 0, the confidence of an unpublished feed being 0.
C39_UnhealthyWhileThresholdPositive ==
    (feed.exists /\ feed.current_price = 0) =>
        \A s \in SettingsAdminCanSet \cup {settings}, now \in TimeArgs :
            s.confidence_threshold > 0 => ~HealthyUnder(s, FeedPair, now).healthy

\* The pair has been added and nothing was published: once the admin sets the
\* confidence threshold to 0, the pair is reported healthy for every time up
\* to stale_threshold.
C39_WitnessHealthyWithoutPrice ==
    /\ feed.exists /\ feed.current_price = 0 /\ feed.last_update = 0
    /\ get_price(FeedPair).price = 0
    /\ update_settings_outcome(OracleAdmin, None, 0, None) = Succeeds
    /\ HealthyUnder(SettingsAfter(settings, None, 0, None), FeedPair, 0)
          = [ok |-> TRUE, healthy |-> TRUE]
    /\ HealthyUnder(SettingsAfter(settings, None, 0, None), FeedPair, TickMs).healthy
    /\ ~is_oracle_healthy(FeedPair, 0).healthy

====
